---- MODULE Spec2Model ----
(***************************************************************************)
(* Model of semantic-model-generator: table classification by key-column   *)
(* count (schema/classification.py), star-schema relationship inference    *)
(* with role-playing resolution (schema/relationships.py), the validation  *)
(* of column values (domain/types.py), table filtering                     *)
(* (schema/filtering.py), the pipeline and its stage errors (pipeline.py), *)
(* production deployment (fabric/deployment.py) and the folder writer      *)
(* (output/writer.py).                                                     *)
(*                                                                         *)
(* Python str values are sequences of Unicode code points; str comparison  *)
(* is lexicographic on code points, tuple comparison is lexicographic on   *)
(* the components.                                                         *)
(***************************************************************************)
EXTENDS Integers, Sequences, FiniteSets, TLC

VARIABLES tables, classifications, key_prefixes, relationships, pc,
          calls, column, filtering, pipeline, deployment, folder, output

vars == <<tables, classifications, key_prefixes, relationships, pc,
          calls, column, filtering, pipeline, deployment, folder, output>>

(* calls: the local variables of concurrent invocations of the core;       *)
(* column: a ColumnMetadata under construction; filtering: the arguments   *)
(* and result of filter_tables; pipeline: one generate_semantic_model      *)
(* call; deployment: one deploy_semantic_model_prod call and the           *)
(* workspace; folder: the files on disk and one write_tmdl_folder call.    *)
(* A specification that does not run an operation leaves its variable at   *)
(* NotInUse.                                                               *)
NotInUse == <<>>

besidesCore == <<calls, column, filtering, pipeline, deployment, folder, output>>

CoreOnly ==
    /\ calls = NotInUse
    /\ column = NotInUse
    /\ filtering = NotInUse
    /\ pipeline = NotInUse
    /\ deployment = NotInUse
    /\ folder = NotInUse
    /\ output = NotInUse

----------------------------------------------------------------------------
(* Code points of the characters used in names.                            *)
Ch == [A |-> 65, B |-> 66, F |-> 70, K |-> 75, N |-> 78, S |-> 83, T |-> 84,
       us |-> 95, k |-> 107, dot |-> 46, dash |-> 45, gt |-> 62,
       colon |-> 58, sp |-> 32]

(* Python None as returned by strip_prefix and dict.get: not a str.        *)
None == <<-1>>

(* str.startswith                                                          *)
StartsWith(s, p) == Len(p) <= Len(s) /\ SubSeq(s, 1, Len(p)) = p

(* str < str                                                               *)
RECURSIVE StrLess(_, _)
StrLess(a, b) ==
    IF a = <<>> THEN b # <<>>
    ELSE IF b = <<>> THEN FALSE
    ELSE IF a[1] # b[1] THEN a[1] < b[1]
    ELSE StrLess(Tail(a), Tail(b))

(* tuple-of-str < tuple-of-str                                             *)
RECURSIVE TupleLess(_, _)
TupleLess(a, b) ==
    IF a = <<>> THEN b # <<>>
    ELSE IF b = <<>> THEN FALSE
    ELSE IF a[1] # b[1] THEN StrLess(a[1], b[1])
    ELSE TupleLess(Tail(a), Tail(b))

(* list.sort / sorted with a key: stable, ascending.  The entries are the  *)
(* items decorated with their key, a tuple of str.                         *)
RECURSIVE InsertKeyed(_, _)
InsertKeyed(x, s) ==
    IF s = <<>> THEN <<x>>
    ELSE IF TupleLess(x.key, s[1].key) THEN <<x>> \o s
    ELSE <<s[1]>> \o InsertKeyed(x, Tail(s))

RECURSIVE SortKeyed(_)
SortKeyed(s) ==
    IF s = <<>> THEN <<>>
    ELSE InsertKeyed(s[Len(s)], SortKeyed(SubSeq(s, 1, Len(s) - 1)))

Undecorate(s) == [i \in DOMAIN s |-> s[i].val]

----------------------------------------------------------------------------
(* utils/uuid_gen.py                                                       *)

RECURSIVE LStrip(_)
LStrip(s) == IF s # <<>> /\ s[1] = Ch.sp THEN LStrip(Tail(s)) ELSE s

RECURSIVE RStrip(_)
RStrip(s) ==
    IF s # <<>> /\ s[Len(s)] = Ch.sp THEN RStrip(SubSeq(s, 1, Len(s) - 1)) ELSE s

Strip(s) == RStrip(LStrip(s))

SEMANTIC_MODEL_NAMESPACE == "b8a7d3f2-6c1e-4a59-9d2b-8f3e7c5a1d04"

(* A raised exception is the value that stands where the result of the     *)
(* raising call would stand.                                               *)
Exception(type) == [exception |-> type]

IsException(x) == "exception" \in DOMAIN x

(* uuid5 is a hash of (namespace, name); taken as injective, it is the     *)
(* pair itself.  object_type is already lower case at every call site.     *)
generate_deterministic_uuid(object_type, object_name) ==
    LET normalized_type == Strip(object_type)
        normalized_name == Strip(object_name)
    IN  IF normalized_type = <<>> \/ normalized_name = <<>>
        THEN Exception("ValueError")
        ELSE [namespace |-> SEMANTIC_MODEL_NAMESPACE,
              name |-> normalized_type \o <<Ch.colon>> \o normalized_name]

(* an empty object type in place of the literal                            *)
RelationshipType_Empty == <<>>

(* the literal "relationship"                                              *)
RelationshipType == <<114, 101, 108, 97, 116, 105, 111, 110, 115, 104, 105, 112>>

----------------------------------------------------------------------------
(* domain/types.py                                                         *)

TableClassification == [DIMENSION |-> "dimension", FACT |-> "fact",
                        UNCLASSIFIED |-> "unclassified"]

(* Relationship(...) with the dataclass defaults for the last three fields *)
Relationship(id, from_table, from_column, to_table, to_column, is_active) ==
    [id |-> id, from_table |-> from_table, from_column |-> from_column,
     to_table |-> to_table, to_column |-> to_column, is_active |-> is_active,
     cross_filtering_behavior |-> "oneDirection",
     from_cardinality |-> "many", to_cardinality |-> "one"]

----------------------------------------------------------------------------
(* schema/classification.py                                                *)

(* any(col.name.startswith(prefix) for prefix in key_prefixes)             *)
IsKeyColumn(name, prefixes) ==
    \E j \in DOMAIN prefixes : StartsWith(name, prefixes[j])

(* classify_table counting one per matching (column, prefix) pair          *)
classify_table_PerPrefix(columns, prefixes) ==
    LET key_count == Cardinality({<<i, j>> \in (DOMAIN columns) \X (DOMAIN prefixes) :
                                    StartsWith(columns[i].name, prefixes[j])})
    IN  IF key_count = 1 THEN TableClassification.DIMENSION
        ELSE IF key_count >= 2 THEN TableClassification.FACT
        ELSE TableClassification.UNCLASSIFIED

classify_table(columns, prefixes) ==
    LET key_count == Cardinality({i \in DOMAIN columns :
                                    IsKeyColumn(columns[i].name, prefixes)})
    IN  IF key_count = 1 THEN TableClassification.DIMENSION
        ELSE IF key_count >= 2 THEN TableClassification.FACT
        ELSE TableClassification.UNCLASSIFIED

(* classify_tables taking the value of an entry from the last table with   *)
(* the same table_name, whatever its schema                                *)
classify_tables_ByTableName(tbls, prefixes) ==
    LET keys == {<<tbls[i].schema_name, tbls[i].table_name>> : i \in DOMAIN tbls}
        Last(k) == CHOOSE i \in DOMAIN tbls :
                      /\ tbls[i].table_name = k[2]
                      /\ \A j \in DOMAIN tbls : tbls[j].table_name = k[2] => j <= i
    IN  [k \in keys |-> classify_table(tbls[Last(k)].columns, prefixes)]

(* dict comprehension: a later table with the same key overwrites.         *)
classify_tables(tbls, prefixes) ==
    LET keys == {<<tbls[i].schema_name, tbls[i].table_name>> : i \in DOMAIN tbls}
        Last(k) == CHOOSE i \in DOMAIN tbls :
                      /\ <<tbls[i].schema_name, tbls[i].table_name>> = k
                      /\ \A j \in DOMAIN tbls :
                            <<tbls[j].schema_name, tbls[j].table_name>> = k => j <= i
    IN  [k \in keys |-> classify_table(tbls[Last(k)].columns, prefixes)]

----------------------------------------------------------------------------
(* schema/relationships.py                                                 *)

RECURSIVE strip_prefix(_, _)
strip_prefix(column_name, prefixes) ==
    IF prefixes = <<>> THEN None
    ELSE IF StartsWith(column_name, prefixes[1])
         THEN SubSeq(column_name, Len(prefixes[1]) + 1, Len(column_name))
         ELSE strip_prefix(column_name, Tail(prefixes))

is_exact_match(column_name, prefixes) ==
    \E j \in DOMAIN prefixes : prefixes[j] = column_name

(* f"{schema_name}.{table_name}"                                           *)
Qualified(t) == t.schema_name \o <<Ch.dot>> \o t.table_name

(* classifications.get((schema_name, table_name))                          *)
ClassificationOf(cls, t) ==
    IF <<t.schema_name, t.table_name>> \in DOMAIN cls
    THEN cls[<<t.schema_name, t.table_name>>]
    ELSE "None"

(* Facts taking every table that is not a Dimension                        *)
Facts_NotDimension(tbls, cls) ==
    SelectSeq(tbls, LAMBDA t : ClassificationOf(cls, t) # TableClassification.DIMENSION)

(* lines 61-70: partition into facts and dimensions, input order kept      *)
Facts(tbls, cls) ==
    SelectSeq(tbls, LAMBDA t : ClassificationOf(cls, t) = TableClassification.FACT)

Dimensions(tbls, cls) ==
    SelectSeq(tbls, LAMBDA t : ClassificationOf(cls, t) = TableClassification.DIMENSION)

(* [col for col in columns if strip_prefix(col.name, key_prefixes) is not None] *)
KeyCols(columns, prefixes) ==
    SelectSeq(columns, LAMBDA c : strip_prefix(c.name, prefixes) # None)

(* dict[key] = value on an insertion-ordered dict kept as a sequence of    *)
(* entries: an existing key keeps its position and gets the new value.     *)
DictSet(d, k, v) ==
    IF \E i \in DOMAIN d : d[i].key = k
    THEN [i \in DOMAIN d |-> IF d[i].key = k THEN [key |-> k, val |-> v] ELSE d[i]]
    ELSE Append(d, [key |-> k, val |-> v])

(* lines 75-88, the body of the loop for one dimension                     *)
AddDimension(dim_lookup, dim, prefixes) ==
    LET dim_key_cols == KeyCols(dim.columns, prefixes)
    IN  IF Len(dim_key_cols) = 1
        THEN LET dim_key_col == dim_key_cols[1]
                 dim_base == strip_prefix(dim_key_col.name, prefixes)
             IN  IF dim_base # <<>> /\ ~is_exact_match(dim_key_col.name, prefixes)
                 THEN DictSet(dim_lookup, dim_base,
                              [qualified |-> Qualified(dim), col |-> dim_key_col.name])
                 ELSE dim_lookup
        ELSE dim_lookup

(* lines 72-88: dim_lookup after the loop over the dimensions              *)
RECURSIVE BuildDimLookup(_, _)
BuildDimLookup(dims, prefixes) ==
    IF dims = <<>> THEN <<>>
    ELSE AddDimension(BuildDimLookup(SubSeq(dims, 1, Len(dims) - 1), prefixes),
                      dims[Len(dims)], prefixes)

(* lines 113-125 and 133-146: the relationship appended for a match        *)
NewRelationship(fact_qualified, fact_col_name, entry) ==
    Relationship(
        generate_deterministic_uuid(RelationshipType,
            fact_qualified \o <<Ch.dot>> \o fact_col_name \o <<Ch.dash, Ch.gt>>
                \o entry.qualified \o <<Ch.dot>> \o entry.col),
        fact_qualified, fact_col_name, entry.qualified, entry.col, TRUE)

(* RoleMatch with the test of the underscore boundary left out             *)
RoleMatch_NoBoundary(fact_base, dim_base) ==
    /\ StartsWith(fact_base, dim_base)
    /\ Len(fact_base) > Len(dim_base)

(* lines 130-132: role-playing test of fact_base against one dim_base      *)
RoleMatch(fact_base, dim_base) ==
    /\ StartsWith(fact_base, dim_base)
    /\ Len(fact_base) > Len(dim_base)
    /\ fact_base[Len(dim_base) + 1] = Ch.us

(* RoleMatchEntries with the break left out: every role-playing match      *)
RoleMatchEntries_NoBreak(fact_base, dim_lookup) ==
    SelectSeq(dim_lookup, LAMBDA e : RoleMatch(fact_base, e.key))

(* lines 128-147: the entries the loop over dim_lookup.items() emits a     *)
(* relationship for: it breaks at the first role-playing match             *)
RoleMatchEntries(fact_base, dim_lookup) ==
    LET all == SelectSeq(dim_lookup, LAMBDA e : RoleMatch(fact_base, e.key))
    IN  IF all = <<>> THEN <<>> ELSE <<all[1]>>

(* the schema part of a qualified name: what stands before the first dot   *)
RECURSIVE SchemaPart(_)
SchemaPart(qualified) ==
    IF qualified = <<>> \/ qualified[1] = Ch.dot THEN <<>>
    ELSE <<qualified[1]>> \o SchemaPart(Tail(qualified))

(* MatchFactColumn looking only at the dimensions of the fact's own schema *)
MatchFactColumn_SameSchema(fact_qualified, fact_col_name, dim_lookup, prefixes) ==
    LET own == SelectSeq(dim_lookup, LAMBDA e :
                   SchemaPart(e.val.qualified) = SchemaPart(fact_qualified))
    IN  IF is_exact_match(fact_col_name, prefixes) THEN <<>>
        ELSE LET fact_base == strip_prefix(fact_col_name, prefixes)
             IN  IF fact_base = None THEN <<>>
                 ELSE IF \E i \in DOMAIN own : own[i].key = fact_base
                 THEN LET i == CHOOSE i \in DOMAIN own : own[i].key = fact_base
                      IN  <<NewRelationship(fact_qualified, fact_col_name, own[i].val)>>
                 ELSE LET entries == RoleMatchEntries(fact_base, own)
                      IN  [n \in DOMAIN entries |->
                             NewRelationship(fact_qualified, fact_col_name, entries[n].val)]

(* MatchFactColumn trying the role-playing match before the exact one      *)
MatchFactColumn_RoleFirst(fact_qualified, fact_col_name, dim_lookup, prefixes) ==
    IF is_exact_match(fact_col_name, prefixes) THEN <<>>
    ELSE LET fact_base == strip_prefix(fact_col_name, prefixes)
         IN  IF fact_base = None THEN <<>>
             ELSE LET entries == RoleMatchEntries(fact_base, dim_lookup)
                  IN  IF entries # <<>>
                      THEN <<NewRelationship(fact_qualified, fact_col_name, entries[1].val)>>
                      ELSE IF \E i \in DOMAIN dim_lookup : dim_lookup[i].key = fact_base
                      THEN LET i == CHOOSE i \in DOMAIN dim_lookup :
                                        dim_lookup[i].key = fact_base
                           IN  <<NewRelationship(fact_qualified, fact_col_name,
                                                 dim_lookup[i].val)>>
                      ELSE <<>>

(* MatchFactColumn with the skip of exact-match columns left out           *)
MatchFactColumn_NoExactSkip(fact_qualified, fact_col_name, dim_lookup, prefixes) ==
    LET fact_base == strip_prefix(fact_col_name, prefixes)
    IN  IF fact_base = None THEN <<>>
        ELSE IF \E i \in DOMAIN dim_lookup : dim_lookup[i].key = fact_base
        THEN LET i == CHOOSE i \in DOMAIN dim_lookup : dim_lookup[i].key = fact_base
             IN  <<NewRelationship(fact_qualified, fact_col_name, dim_lookup[i].val)>>
        ELSE LET entries == RoleMatchEntries(fact_base, dim_lookup)
             IN  [n \in DOMAIN entries |->
                    NewRelationship(fact_qualified, fact_col_name, entries[n].val)]

(* lines 101-147, the body of the loop for one fact key column: the        *)
(* relationships it appends                                                *)
MatchFactColumn(fact_qualified, fact_col_name, dim_lookup, prefixes) ==
    IF is_exact_match(fact_col_name, prefixes) THEN <<>>
    ELSE LET fact_base == strip_prefix(fact_col_name, prefixes)
         IN  IF fact_base = None THEN <<>>
             ELSE IF \E i \in DOMAIN dim_lookup : dim_lookup[i].key = fact_base
             THEN LET i == CHOOSE i \in DOMAIN dim_lookup : dim_lookup[i].key = fact_base
                  IN  <<NewRelationship(fact_qualified, fact_col_name, dim_lookup[i].val)>>
             ELSE LET entries == RoleMatchEntries(fact_base, dim_lookup)
                  IN  [n \in DOMAIN entries |->
                         NewRelationship(fact_qualified, fact_col_name, entries[n].val)]

(* lines 93-147 for one fact: the relationships appended for its columns   *)
RECURSIVE MatchFactColumns(_, _, _, _)
MatchFactColumns(fact_qualified, cols, dim_lookup, prefixes) ==
    IF cols = <<>> THEN <<>>
    ELSE MatchFactColumn(fact_qualified, cols[1].name, dim_lookup, prefixes)
         \o MatchFactColumns(fact_qualified, Tail(cols), dim_lookup, prefixes)

(* lines 90-147: the candidate relationships, in order of appending        *)
RECURSIVE Candidates(_, _, _)
Candidates(facts, dim_lookup, prefixes) ==
    IF facts = <<>> THEN <<>>
    ELSE MatchFactColumns(Qualified(facts[1]), KeyCols(facts[1].columns, prefixes),
                          dim_lookup, prefixes)
         \o Candidates(Tail(facts), dim_lookup, prefixes)

(* lines 153-155: the keys of groups in insertion order                    *)
RECURSIVE GroupKeys(_)
GroupKeys(rels) ==
    IF rels = <<>> THEN <<>>
    ELSE LET before == GroupKeys(SubSeq(rels, 1, Len(rels) - 1))
             k == <<rels[Len(rels)].from_table, rels[Len(rels)].to_table>>
         IN  IF \E i \in DOMAIN before : before[i] = k THEN before
             ELSE Append(before, k)

(* groups[key]: the relationships of one group, in order of appending      *)
Group(rels, k) ==
    SelectSeq(rels, LAMBDA r : <<r.from_table, r.to_table>> = k)

(* SortedByFromColumn with the sort left out: the group in append order    *)
SortedByFromColumn_Unsorted(group_rels) == group_rels

(* sorted(group_rels, key=lambda r: r.from_column)                         *)
SortedByFromColumn(group_rels) ==
    Undecorate(SortKeyed([i \in DOMAIN group_rels |->
                 [key |-> <<group_rels[i].from_column>>, val |-> group_rels[i]]]))

(* ResolveGroup with the rewrite to is_active = False left out             *)
ResolveGroup_AllActive(group_rels) ==
    IF Len(group_rels) = 1 THEN group_rels
    ELSE SortedByFromColumn(group_rels)

(* lines 173-183: the relationship built anew, field by field, with        *)
(* is_active=False                                                         *)
InactiveCopy(rel) ==
    [id |-> rel.id, from_table |-> rel.from_table, from_column |-> rel.from_column,
     to_table |-> rel.to_table, to_column |-> rel.to_column, is_active |-> FALSE,
     cross_filtering_behavior |-> rel.cross_filtering_behavior,
     from_cardinality |-> rel.from_cardinality, to_cardinality |-> rel.to_cardinality]

(* ResolveGroup that keeps only the active relationship of a group         *)
ResolveGroup_ActiveOnly(group_rels) ==
    IF Len(group_rels) = 1 THEN group_rels
    ELSE <<SortedByFromColumn(group_rels)[1]>>

(* lines 160-184, the body of the loop for one group: what it appends to   *)
(* final_relationships                                                     *)
ResolveGroup(group_rels) ==
    IF Len(group_rels) = 1 THEN group_rels
    ELSE LET sorted_rels == SortedByFromColumn(group_rels)
         IN  [i \in DOMAIN sorted_rels |->
                IF i = 1 THEN sorted_rels[1] ELSE InactiveCopy(sorted_rels[i])]

(* lines 158-184: final_relationships before the final sort                *)
RECURSIVE ResolveGroups(_, _)
ResolveGroups(rels, keys) ==
    IF keys = <<>> THEN <<>>
    ELSE ResolveGroup(Group(rels, keys[1])) \o ResolveGroups(rels, Tail(keys))

(* FinalSort with the sort left out                                        *)
FinalSort_Unsorted(rels) == rels

(* line 187: sort by (from_table, from_column, to_table, to_column)        *)
FinalSort(rels) ==
    Undecorate(SortKeyed([i \in DOMAIN rels |->
                 [key |-> <<rels[i].from_table, rels[i].from_column,
                            rels[i].to_table, rels[i].to_column>>,
                  val |-> rels[i]]]))

(* An exception raised while a relationship is built leaves the call: a    *)
(* result that holds an exception stands for the raised call.              *)
Raised(result) == \E i \in DOMAIN result : IsException(result[i].id)

(* infer_relationships rejecting an empty tables sequence with ValueError  *)
infer_relationships_RejectsEmpty(tbls, cls, prefixes) ==
    IF tbls = <<>> THEN <<[id |-> Exception("ValueError")]>>
    ELSE LET facts == Facts(tbls, cls)
             dimensions == Dimensions(tbls, cls)
             dim_lookup == BuildDimLookup(dimensions, prefixes)
             rels == Candidates(facts, dim_lookup, prefixes)
         IN  FinalSort(ResolveGroups(rels, GroupKeys(rels)))

infer_relationships(tbls, cls, prefixes) ==
    IF tbls = <<>> THEN <<>>
    ELSE LET facts == Facts(tbls, cls)
             dimensions == Dimensions(tbls, cls)
             dim_lookup == BuildDimLookup(dimensions, prefixes)
             rels == Candidates(facts, dim_lookup, prefixes)
         IN  FinalSort(ResolveGroups(rels, GroupKeys(rels)))


----------------------------------------------------------------------------
(* Inputs                                                                  *)

(* all the columns of the input tables together                            *)
MaxTotalCols == 3

(* key prefixes: "K_" and "K_A_", which starts with "K_"                   *)
PrefixPool == {<<Ch.K, Ch.us>>, <<Ch.K, Ch.us, Ch.A, Ch.us>>}

(* column names: "K_A", "K_A_", "K_A_A", "K_A__A".  After "K_" they are    *)
(* A, A_, A_A, A__A; after "K_A_" the last three are empty, A, _A.         *)
ColumnNamePool ==
    {<<Ch.K, Ch.us, Ch.A>>,
     <<Ch.K, Ch.us, Ch.A, Ch.us>>,
     <<Ch.K, Ch.us, Ch.A, Ch.us, Ch.A>>,
     <<Ch.K, Ch.us, Ch.A, Ch.us, Ch.us, Ch.A>>}

(* sequences without repetition over a set, of length at most n            *)
RECURSIVE DistinctSeqs(_, _)
DistinctSeqs(S, n) ==
    IF n = 0 THEN {<<>>}
    ELSE LET shorter == DistinctSeqs(S, n - 1)
         IN  shorter \cup
             UNION {{Append(q, x) : x \in S \ {q[i] : i \in DOMAIN q}}
                    : q \in {r \in shorter : Len(r) = n - 1}}

(* key_prefixes: any of the prefixes, in any order                         *)
PrefixLists == DistinctSeqs(PrefixPool, Cardinality(PrefixPool))

(* the tables of a warehouse have pairwise distinct (schema, table): the   *)
(* i-th input table is S.B, T.A, S.A, T.B, S.BA, ...                       *)
TableIdAt(i) ==
    [schema_name |-> IF i % 2 = 1 THEN <<Ch.S>> ELSE <<Ch.T>>,
     table_name  |-> (IF i % 4 \in {1, 0} THEN <<Ch.B>> ELSE <<Ch.A>>)
                     \o [j \in 1..((i - 1) \div 4) |-> Ch.A]]

(* the columns of one table as discovery returns them (an inner join of    *)
(* tables and columns): at least one, with distinct names                  *)
ColumnLists ==
    {[i \in DOMAIN q |-> [name |-> q[i]]] :
        q \in DistinctSeqs(ColumnNamePool, MaxTotalCols) \ {<<>>}}

(* the column lists of n tables with at most budget columns in all         *)
RECURSIVE ColumnListsOf(_, _)
ColumnListsOf(n, budget) ==
    IF n = 0 THEN {<<>>}
    ELSE UNION {{<<c>> \o rest : rest \in ColumnListsOf(n - 1, budget - Len(c))}
                : c \in {d \in ColumnLists : Len(d) <= budget}}

TableLists ==
    UNION {{[i \in 1..n |-> [schema_name |-> TableIdAt(i).schema_name,
                             table_name  |-> TableIdAt(i).table_name,
                             columns     |-> cs[i]]] : cs \in ColumnListsOf(n, MaxTotalCols)}
           : n \in 0..MaxTotalCols}

ClassValues == {TableClassification.FACT, TableClassification.DIMENSION,
                TableClassification.UNCLASSIFIED}

(* a map, and the maps with one entry changed or left out                  *)
MapEdits(m) ==
    {m} \cup {[m EXCEPT ![k] = v] : k \in DOMAIN m, v \in ClassValues}
        \cup {[j \in DOMAIN m \ {k} |-> m[j]] : k \in DOMAIN m}

(* a map with one more entry, for a table that is not among the tables     *)
StaleEntries(m, tbls) ==
    LET k == <<TableIdAt(Len(tbls) + 1).schema_name, TableIdAt(Len(tbls) + 1).table_name>>
    IN  {[j \in DOMAIN m \cup {k} |-> IF j = k THEN v ELSE m[j]] : v \in ClassValues}

(* the maps a caller passes: the one classify_tables computes, one that    *)
(* differs from it in up to two entries, or one with an entry too many     *)
ClassificationMaps(tbls, prefixes) ==
    UNION {MapEdits(m) : m \in MapEdits(classify_tables(tbls, prefixes))}
        \cup StaleEntries(classify_tables(tbls, prefixes), tbls)

Init ==
    /\ tables \in TableLists
    /\ key_prefixes \in PrefixLists
    /\ classifications \in ClassificationMaps(tables, key_prefixes)
    /\ relationships = <<>>
    /\ pc = "start"
    /\ CoreOnly

InferRelationships ==
    /\ pc = "start"
    /\ LET result == infer_relationships(tables, classifications, key_prefixes)
       IN  IF Raised(result)
           THEN pc' = "raised" /\ UNCHANGED relationships
           ELSE pc' = "inferred" /\ relationships' = result
    /\ UNCHANGED <<tables, classifications, key_prefixes>>
    /\ UNCHANGED besidesCore

Next == InferRelationships

Spec == Init /\ [][Next]_vars

(* Inputs of the classifier: key prefixes "K_", "K_A_" and "k_"; column    *)
(* names "K_A", "K_A_B", "K_", "k_A" and "N"; a table may have no column.  *)
ClassifyPrefixPool ==
    {<<Ch.K, Ch.us>>, <<Ch.K, Ch.us, Ch.A, Ch.us>>, <<Ch.k, Ch.us>>}

ClassifyColumnNamePool ==
    {<<Ch.K, Ch.us, Ch.A>>, <<Ch.K, Ch.us, Ch.A, Ch.us, Ch.B>>, <<Ch.K, Ch.us>>,
     <<Ch.k, Ch.us, Ch.A>>, <<Ch.N>>}

ClassifyPrefixLists == DistinctSeqs(ClassifyPrefixPool, Cardinality(ClassifyPrefixPool))

ClassifyColumnLists ==
    {[i \in DOMAIN q |-> [name |-> q[i]]] :
        q \in DistinctSeqs(ClassifyColumnNamePool, MaxTotalCols)}

RECURSIVE ClassifyColumnListsOf(_, _)
ClassifyColumnListsOf(n, budget) ==
    IF n = 0 THEN {<<>>}
    ELSE UNION {{<<c>> \o rest : rest \in ClassifyColumnListsOf(n - 1, budget - Len(c))}
                : c \in {d \in ClassifyColumnLists : Len(d) <= budget}}

(* the tables of a warehouse have pairwise distinct (schema, table): the   *)
(* classifier's i-th table is S.A, T.A, S.B, S.BA, ..., so that the first  *)
(* two share the table name and the first and third the schema             *)
ClassifyTableIdAt(i) ==
    [schema_name |-> IF i = 2 THEN <<Ch.T>> ELSE <<Ch.S>>,
     table_name  |-> IF i <= 2 THEN <<Ch.A>>
                     ELSE <<Ch.B>> \o [j \in 1..(i - 3) |-> Ch.A]]

ClassifyTableLists ==
    UNION {{[i \in 1..n |-> [schema_name |-> ClassifyTableIdAt(i).schema_name,
                             table_name  |-> ClassifyTableIdAt(i).table_name,
                             columns     |-> cs[i]]]
            : cs \in ClassifyColumnListsOf(n, MaxTotalCols)}
           : n \in 0..(MaxTotalCols - 1)}

InitClassify ==
    /\ tables \in ClassifyTableLists
    /\ key_prefixes \in ClassifyPrefixLists
    /\ classifications = <<>>
    /\ relationships = <<>>
    /\ pc = "start"
    /\ CoreOnly

ClassifyTables ==
    /\ pc = "start"
    /\ classifications' = classify_tables(tables, key_prefixes)
    /\ pc' = "classified"
    /\ UNCHANGED <<tables, key_prefixes, relationships>>
    /\ UNCHANGED besidesCore

NextClassify == ClassifyTables

SpecClassify == InitClassify /\ [][NextClassify]_vars

----------------------------------------------------------------------------
(* Concurrent invocations of classify_tables and infer_relationships on    *)
(* the same tables, map and prefixes.  The arguments are shared objects;   *)
(* each invocation has the local variables of its function, and the        *)
(* invocations take their steps in any order.                              *)

(* concurrent invocations                                                  *)
NumCalls == 2

(* a dimension S.A with key K_A and a fact T.B with keys K_A_A and K_A     *)
ConcurrentTableLists ==
    LET dim  == [schema_name |-> <<Ch.S>>, table_name |-> <<Ch.A>>,
                 columns |-> <<[name |-> <<Ch.K, Ch.us, Ch.A>>]>>]
        fact == [schema_name |-> <<Ch.T>>, table_name |-> <<Ch.B>>,
                 columns |-> <<[name |-> <<Ch.K, Ch.us, Ch.A, Ch.us, Ch.A>>],
                               [name |-> <<Ch.K, Ch.us, Ch.A>>]>>]
    IN  {<<>>, <<dim>>, <<dim, fact>>, <<fact, dim>>}

(* the frame of a call: its function, its position, the arguments as they  *)
(* were passed, and its local variables                                    *)
NewCall(fn) ==
    [fn |-> fn, pc |-> "start",
     args |-> [tables |-> tables, classifications |-> classifications,
               key_prefixes |-> key_prefixes],
     facts |-> <<>>, dimensions |-> <<>>, dim_lookup |-> <<>>,
     relationships |-> <<>>, i |-> 0, result |-> <<>>]

InitConcurrent ==
    /\ tables \in ConcurrentTableLists
    /\ key_prefixes \in {<<>>, <<<<Ch.K, Ch.us>>>>}
    /\ classifications = classify_tables(tables, key_prefixes)
    /\ relationships = <<>>
    /\ pc = "start"
    /\ calls \in [1..NumCalls ->
                    {NewCall(fn) : fn \in {"classify_tables", "infer_relationships"}}]
    /\ column = NotInUse
    /\ filtering = NotInUse
    /\ pipeline = NotInUse
    /\ deployment = NotInUse
    /\ folder = NotInUse
    /\ output = NotInUse

besidesCalls == <<tables, classifications, key_prefixes, relationships, pc,
                  column, filtering, pipeline, deployment, folder, output>>

(* classification.py:62, one iteration of the comprehension                *)
ClassifyNext(p) ==
    LET c == calls[p]
        t == tables[c.i + 1]
        k == <<t.schema_name, t.table_name>>
        v == classify_table(t.columns, key_prefixes)
    IN  /\ c.fn = "classify_tables" /\ c.pc = "start"
        /\ c.i < Len(tables)
        /\ calls' = [calls EXCEPT ![p] =
              [c EXCEPT !.i = c.i + 1,
                        !.result = [j \in DOMAIN c.result \cup {k} |->
                                       IF j = k THEN v ELSE c.result[j]]]]
        /\ UNCHANGED besidesCalls

(* classification.py:62, the comprehension is exhausted and the dict       *)
(* returned                                                                *)
ClassifyReturn(p) ==
    LET c == calls[p]
    IN  /\ c.fn = "classify_tables" /\ c.pc = "start"
        /\ c.i = Len(tables)
        /\ calls' = [calls EXCEPT ![p] = [c EXCEPT !.pc = "done"]]
        /\ UNCHANGED besidesCalls

(* relationships.py:58-59                                                  *)
ReturnEmpty(p) ==
    LET c == calls[p]
    IN  /\ c.fn = "infer_relationships" /\ c.pc = "start"
        /\ tables = <<>>
        /\ calls' = [calls EXCEPT ![p] = [c EXCEPT !.pc = "done", !.result = <<>>]]
        /\ UNCHANGED besidesCalls

(* relationships.py:61-70                                                  *)
Partition(p) ==
    LET c == calls[p]
    IN  /\ c.fn = "infer_relationships" /\ c.pc = "start"
        /\ tables # <<>>
        /\ calls' = [calls EXCEPT ![p] =
              [c EXCEPT !.pc = "partitioned",
                        !.facts = Facts(tables, classifications),
                        !.dimensions = Dimensions(tables, classifications)]]
        /\ UNCHANGED besidesCalls

(* relationships.py:72-88                                                  *)
BuildLookup(p) ==
    LET c == calls[p]
    IN  /\ c.fn = "infer_relationships" /\ c.pc = "partitioned"
        /\ calls' = [calls EXCEPT ![p] =
              [c EXCEPT !.pc = "lookup",
                        !.dim_lookup = BuildDimLookup(c.dimensions, key_prefixes)]]
        /\ UNCHANGED besidesCalls

(* the list the other calls have appended to, were the list of candidate   *)
(* relationships one object shared by all calls: the longest of theirs     *)
SharedList(p) ==
    LET others == {q \in DOMAIN calls : q # p /\ calls[q].relationships # <<>>}
    IN  IF others = {} THEN <<>>
        ELSE calls[CHOOSE q \in others : \A r \in others :
                      Len(calls[r].relationships) <= Len(calls[q].relationships)
                  ].relationships

(* MatchFacts appending to a list shared by all calls, as a mutable        *)
(* default argument or a module-level list would be                        *)
MatchFacts_SharedList(p) ==
    LET c == calls[p]
        rels == SharedList(p) \o Candidates(c.facts, c.dim_lookup, key_prefixes)
    IN  /\ c.fn = "infer_relationships" /\ c.pc = "lookup"
        /\ calls' = [calls EXCEPT ![p] =
              [c EXCEPT !.pc = "matched", !.relationships = rels]]
        /\ UNCHANGED besidesCalls

(* relationships.py:90-147                                                 *)
MatchFacts(p) ==
    LET c == calls[p]
        rels == Candidates(c.facts, c.dim_lookup, key_prefixes)
    IN  /\ c.fn = "infer_relationships" /\ c.pc = "lookup"
        /\ calls' = [calls EXCEPT ![p] =
              [c EXCEPT !.pc = IF Raised(rels) THEN "raised" ELSE "matched",
                        !.relationships = IF Raised(rels) THEN <<>> ELSE rels]]
        /\ UNCHANGED besidesCalls

(* relationships.py:149-189                                                *)
ResolveAndSort(p) ==
    LET c == calls[p]
    IN  /\ c.fn = "infer_relationships" /\ c.pc = "matched"
        /\ calls' = [calls EXCEPT ![p] =
              [c EXCEPT !.pc = "done",
                        !.result = FinalSort(ResolveGroups(c.relationships,
                                                 GroupKeys(c.relationships)))]]
        /\ UNCHANGED besidesCalls

NextConcurrent ==
    \E p \in 1..NumCalls :
        \/ ClassifyNext(p)
        \/ ClassifyReturn(p)
        \/ ReturnEmpty(p)
        \/ Partition(p)
        \/ BuildLookup(p)
        \/ MatchFacts(p)
        \/ ResolveAndSort(p)

SpecConcurrent == InitConcurrent /\ [][NextConcurrent]_vars

----------------------------------------------------------------------------
(* domain/types.py: construction of a ColumnMetadata from the fields of a  *)
(* catalog row, and the way of the constructed column to the classifier    *)
(* and the inferrer                                                        *)

(* ColumnMetadata whose ordinal positions start at 0                       *)
ColumnMetadata_ZeroBased(name, sql_type, is_nullable, ordinal_position) ==
    IF name = <<>>
    THEN [exception |-> "ValueError", message |-> "Column name cannot be empty"]
    ELSE IF ordinal_position < 0
    THEN [exception |-> "ValueError", message |-> "Ordinal position must be >= 1"]
    ELSE [name |-> name, sql_type |-> sql_type, is_nullable |-> is_nullable,
          ordinal_position |-> ordinal_position, max_length |-> None,
          numeric_precision |-> None, numeric_scale |-> None]

(* the dataclass constructor followed by __post_init__                     *)
ColumnMetadata(name, sql_type, is_nullable, ordinal_position) ==
    IF name = <<>>
    THEN [exception |-> "ValueError", message |-> "Column name cannot be empty"]
    ELSE IF ordinal_position < 1
    THEN [exception |-> "ValueError", message |-> "Ordinal position must be >= 1"]
    ELSE [name |-> name, sql_type |-> sql_type, is_nullable |-> is_nullable,
          ordinal_position |-> ordinal_position, max_length |-> None,
          numeric_precision |-> None, numeric_scale |-> None]

(* names: empty, a blank, "K_A" and "N"                                    *)
ColumnArgNames == {<<>>, <<Ch.sp>>, <<Ch.K, Ch.us, Ch.A>>, <<Ch.N>>}

ColumnArgs ==
    [name : ColumnArgNames, sql_type : {"int", "varchar"},
     is_nullable : BOOLEAN, ordinal_position : -1..2]

InitColumn ==
    /\ column \in {[args |-> a, value |-> None] : a \in ColumnArgs}
    /\ key_prefixes \in {<<>>, <<<<Ch.K, Ch.us>>>>}
    /\ tables = <<>>
    /\ classifications = <<>>
    /\ relationships = <<>>
    /\ pc = "start"
    /\ calls = NotInUse
    /\ filtering = NotInUse
    /\ pipeline = NotInUse
    /\ deployment = NotInUse
    /\ folder = NotInUse
    /\ output = NotInUse

besidesColumn == <<calls, filtering, pipeline, deployment, folder, output>>

ConstructColumn ==
    /\ pc = "start"
    /\ LET value == ColumnMetadata(column.args.name, column.args.sql_type,
                                   column.args.is_nullable, column.args.ordinal_position)
       IN  /\ column' = [column EXCEPT !.value = value]
           /\ pc' = IF IsException(value) THEN "raised" ELSE "constructed"
    /\ UNCHANGED <<tables, classifications, key_prefixes, relationships>>
    /\ UNCHANGED besidesColumn

(* the constructed column becomes the column of a table, which is          *)
(* classified                                                              *)
ClassifyColumnTable ==
    /\ pc = "constructed"
    /\ tables' = <<[schema_name |-> <<Ch.S>>, table_name |-> <<Ch.A>>,
                    columns |-> <<column.value>>]>>
    /\ classifications' = classify_tables(tables', key_prefixes)
    /\ pc' = "classified"
    /\ UNCHANGED <<key_prefixes, relationships, column>>
    /\ UNCHANGED besidesColumn

(* and passed to the inferrer                                              *)
InferColumnTable ==
    /\ pc = "classified"
    /\ LET result == infer_relationships(tables, classifications, key_prefixes)
       IN  IF Raised(result)
           THEN pc' = "raised" /\ UNCHANGED relationships
           ELSE pc' = "inferred" /\ relationships' = result
    /\ UNCHANGED <<tables, classifications, key_prefixes, column>>
    /\ UNCHANGED besidesColumn

NextColumn == ConstructColumn \/ ClassifyColumnTable \/ InferColumnTable

SpecColumn == InitColumn /\ [][NextColumn]_vars

----------------------------------------------------------------------------
(* schema/filtering.py                                                     *)

(* None where a sequence of names is expected                              *)
NoNames == <<None>>

(* name in set(names)                                                      *)
InNames(name, names) == \E j \in DOMAIN names : names[j] = name

(* filter_tables testing "if include:", which takes an empty list for None *)
filter_tables_TruthyInclude(tbls, include, exclude) ==
    LET included == IF include # NoNames /\ include # <<>>
                    THEN SelectSeq(tbls, LAMBDA t : InNames(t.table_name, include))
                    ELSE tbls
    IN  IF exclude # NoNames
        THEN SelectSeq(included, LAMBDA t : ~InNames(t.table_name, exclude))
        ELSE included

filter_tables(tbls, include, exclude) ==
    LET included == IF include # NoNames
                    THEN SelectSeq(tbls, LAMBDA t : InNames(t.table_name, include))
                    ELSE tbls
    IN  IF exclude # NoNames
        THEN SelectSeq(included, LAMBDA t : ~InNames(t.table_name, exclude))
        ELSE included

(* the tables to filter: up to three of S.A, T.A and S.B, in any order     *)
FilterTableLists ==
    LET ids == {[schema_name |-> <<Ch.S>>, table_name |-> <<Ch.A>>],
                [schema_name |-> <<Ch.T>>, table_name |-> <<Ch.A>>],
                [schema_name |-> <<Ch.S>>, table_name |-> <<Ch.B>>]}
    IN  {[i \in DOMAIN q |-> [schema_name |-> q[i].schema_name,
                              table_name  |-> q[i].table_name,
                              columns     |-> <<[name |-> <<Ch.K, Ch.us, Ch.A>>]>>]]
            : q \in DistinctSeqs(ids, Cardinality(ids))}

(* include and exclude: None, or up to two of the names A, B and N         *)
NameLists == {NoNames} \cup DistinctSeqs({<<Ch.A>>, <<Ch.B>>, <<Ch.N>>}, 2)

InitFilter ==
    /\ tables \in FilterTableLists
    /\ filtering \in {[include |-> i, exclude |-> e, result |-> <<>>]
                        : i \in NameLists, e \in NameLists}
    /\ key_prefixes = <<>>
    /\ classifications = <<>>
    /\ relationships = <<>>
    /\ pc = "start"
    /\ calls = NotInUse
    /\ column = NotInUse
    /\ pipeline = NotInUse
    /\ deployment = NotInUse
    /\ folder = NotInUse
    /\ output = NotInUse

FilterTables ==
    /\ pc = "start"
    /\ filtering' = [filtering EXCEPT
                        !.result = filter_tables(tables, filtering.include, filtering.exclude)]
    /\ pc' = "filtered"
    /\ UNCHANGED <<tables, classifications, key_prefixes, relationships>>
    /\ UNCHANGED <<calls, column, pipeline, deployment, folder, output>>

NextFilter == FilterTables

SpecFilter == InitFilter /\ [][NextFilter]_vars

----------------------------------------------------------------------------
(* pipeline.py: generate_semantic_model.  The collaborators of the stages  *)
(* (connection, discovery, generation, writer, deployment, and in the      *)
(* tests also the core functions) either return or raise; an exception is  *)
(* the record of its type and of the callee that raised it.                *)

(* PipelineError(stage, message, cause)                                    *)
PipelineError(stage, cause) ==
    [exception |-> "PipelineError", stage |-> stage, cause |-> cause]

ExceptionTypes == {"ValueError", "RuntimeError"}

(* PipelineConfig values that pass __post_init__                           *)
PipelineConfigs ==
    [output_mode : {"folder", "fabric"}, dev_mode : BOOLEAN,
     include_tables : {NoNames, <<<<Ch.A>>>>}, exclude_tables : {NoNames},
     key_prefixes : {<<<<Ch.K, Ch.us>>>>}, model_name : {"M"},
     confirm_overwrite : {FALSE}]

InitPipeline ==
    /\ pipeline \in {[config |-> c, called |-> <<>>, received |-> <<>>,
                      raised |-> <<>>, outcome |-> <<>>,
                      tables |-> <<>>, filtered |-> <<>>, classifications |-> <<>>,
                      relationships |-> <<>>, direct_lake_url |-> "",
                      tmdl_files |-> <<>>] : c \in PipelineConfigs}
    /\ pc = "connection"
    /\ tables = <<>>
    /\ key_prefixes = <<>>
    /\ classifications = <<>>
    /\ relationships = <<>>
    /\ calls = NotInUse
    /\ column = NotInUse
    /\ filtering = NotInUse
    /\ deployment = NotInUse
    /\ folder = NotInUse
    /\ output = NotInUse

besidesPipeline == <<tables, classifications, key_prefixes, relationships,
                     calls, column, filtering, deployment, folder, output>>

(* the except clause of a stage: callee has raised an exception of type e  *)
StageFails(stage, callee, e) ==
    LET exc == [exception |-> e, callee |-> callee]
    IN  /\ pipeline' = [pipeline EXCEPT !.called = Append(@, callee),
                                        !.raised = <<exc>>,
                                        !.outcome = <<PipelineError(stage, exc)>>]
        /\ pc' = "raised"

(* lines 142-148                                                           *)
StageConnection ==
    /\ pc = "connection"
    /\ \/ /\ pipeline' = [pipeline EXCEPT !.called = Append(@, "create_fabric_connection")]
          /\ pc' = "discovery"
       \/ \E e \in ExceptionTypes : StageFails("connection", "create_fabric_connection", e)
    /\ UNCHANGED besidesPipeline

(* lines 150-156                                                           *)
StageDiscovery ==
    /\ pc = "discovery"
    /\ \/ \E discovered \in ConcurrentTableLists :
             /\ pipeline' = [pipeline EXCEPT !.called = Append(@, "discover_tables"),
                                             !.tables = discovered]
             /\ pc' = "filtering"
       \/ \E e \in ExceptionTypes : StageFails("discovery", "discover_tables", e)
    /\ UNCHANGED besidesPipeline

(* lines 158-162                                                           *)
StageFiltering ==
    /\ pc = "filtering"
    /\ \/ /\ pipeline' = [pipeline EXCEPT
                !.called = Append(@, "filter_tables"),
                !.filtered = filter_tables(pipeline.tables, pipeline.config.include_tables,
                                           pipeline.config.exclude_tables)]
          /\ pc' = "classification"
       \/ \E e \in ExceptionTypes : StageFails("filtering", "filter_tables", e)
    /\ UNCHANGED besidesPipeline

(* StageClassification handing classify_tables the discovered tables      *)
StageClassification_Discovered ==
    /\ pc = "classification"
    /\ \/ /\ pipeline' = [pipeline EXCEPT
                !.called = Append(@, "classify_tables"),
                !.received = Append(@, [callee |-> "classify_tables",
                                        tables |-> pipeline.tables,
                                        key_prefixes |-> pipeline.config.key_prefixes]),
                !.classifications = classify_tables(pipeline.tables,
                                                    pipeline.config.key_prefixes)]
          /\ pc' = "relationships"
       \/ \E e \in ExceptionTypes : StageFails("classification", "classify_tables", e)
    /\ UNCHANGED besidesPipeline

(* lines 164-168; the arguments of the call are recorded in received       *)
StageClassification ==
    /\ pc = "classification"
    /\ \/ /\ pipeline' = [pipeline EXCEPT
                !.called = Append(@, "classify_tables"),
                !.received = Append(@, [callee |-> "classify_tables",
                                        tables |-> pipeline.filtered,
                                        key_prefixes |-> pipeline.config.key_prefixes]),
                !.classifications = classify_tables(pipeline.filtered,
                                                    pipeline.config.key_prefixes)]
          /\ pc' = "relationships"
       \/ \E e \in ExceptionTypes : StageFails("classification", "classify_tables", e)
    /\ UNCHANGED besidesPipeline

(* lines 170-178: after the stage, resolution runs in fabric mode only     *)
StageRelationships ==
    /\ pc = "relationships"
    /\ \/ LET result == infer_relationships(pipeline.filtered, pipeline.classifications,
                                            pipeline.config.key_prefixes)
          IN  IF Raised(result)
              THEN StageFails("relationships", "infer_relationships", "ValueError")
              ELSE /\ pipeline' = [pipeline EXCEPT
                         !.called = Append(@, "infer_relationships"),
                         !.received = Append(@,
                             [callee |-> "infer_relationships",
                              tables |-> pipeline.filtered,
                              classifications |-> pipeline.classifications,
                              key_prefixes |-> pipeline.config.key_prefixes]),
                         !.relationships = result]
                   /\ pc' = IF pipeline.config.output_mode = "fabric"
                            THEN "resolution" ELSE "tmdl_generation"
       \/ \E e \in ExceptionTypes : StageFails("relationships", "infer_relationships", e)
    /\ UNCHANGED besidesPipeline

(* StageResolution with get_fabric_token called before the try: its        *)
(* exception leaves the call as it is                                      *)
StageResolution_TokenOutsideTry ==
    /\ pc = "resolution"
    /\ \/ /\ pipeline' = [pipeline EXCEPT
                !.called = @ \o <<"get_fabric_token", "resolve_direct_lake_url">>,
                !.direct_lake_url = "https://onelake"]
          /\ pc' = "tmdl_generation"
       \/ \E e \in ExceptionTypes :
             LET exc == [exception |-> e, callee |-> "get_fabric_token"]
             IN  /\ pipeline' = [pipeline EXCEPT !.called = Append(@, "get_fabric_token"),
                                                 !.raised = <<exc>>,
                                                 !.outcome = <<exc>>]
                 /\ pc' = "raised"
       \/ \E e \in ExceptionTypes :
             /\ pipeline' = [pipeline EXCEPT
                   !.called = @ \o <<"get_fabric_token", "resolve_direct_lake_url">>,
                   !.raised = <<[exception |-> e, callee |-> "resolve_direct_lake_url"]>>,
                   !.outcome = <<PipelineError("resolution",
                                   [exception |-> e, callee |-> "resolve_direct_lake_url"])>>]
             /\ pc' = "raised"
    /\ UNCHANGED besidesPipeline

(* lines 179-187                                                           *)
StageResolution ==
    /\ pc = "resolution"
    /\ \/ /\ pipeline' = [pipeline EXCEPT
                !.called = @ \o <<"get_fabric_token", "resolve_direct_lake_url">>,
                !.direct_lake_url = "https://onelake"]
          /\ pc' = "tmdl_generation"
       \/ \E e \in ExceptionTypes : StageFails("resolution", "get_fabric_token", e)
       \/ \E e \in ExceptionTypes :
             /\ pipeline' = [pipeline EXCEPT
                   !.called = @ \o <<"get_fabric_token", "resolve_direct_lake_url">>,
                   !.raised = <<[exception |-> e, callee |-> "resolve_direct_lake_url"]>>,
                   !.outcome = <<PipelineError("resolution",
                                   [exception |-> e, callee |-> "resolve_direct_lake_url"])>>]
             /\ pc' = "raised"
    /\ UNCHANGED besidesPipeline

(* lines 189-204: generate_all_tmdl, kept as the record of its arguments   *)
StageTmdlGeneration ==
    /\ pc = "tmdl_generation"
    /\ \/ /\ pipeline' = [pipeline EXCEPT
                !.called = Append(@, "generate_all_tmdl"),
                !.tmdl_files = <<[model_name |-> pipeline.config.model_name,
                                  tables |-> pipeline.filtered,
                                  classifications |-> pipeline.classifications,
                                  relationships |-> pipeline.relationships,
                                  direct_lake_url |-> pipeline.direct_lake_url]>>]
          /\ pc' = IF pipeline.config.output_mode = "folder" THEN "output" ELSE "deployment"
       \/ \E e \in ExceptionTypes : StageFails("tmdl_generation", "generate_all_tmdl", e)
    /\ UNCHANGED besidesPipeline

(* lines 204-225                                                           *)
StageOutput ==
    /\ pc = "output"
    /\ \/ /\ pipeline' = [pipeline EXCEPT
                !.called = Append(@, "write_tmdl_folder"),
                !.outcome = <<[mode |-> "folder", summary |-> "WriteSummary"]>>]
          /\ pc' = "returned"
       \/ \E e \in ExceptionTypes \cup {"FileExistsError"} :
             StageFails("output", "write_tmdl_folder", e)
    /\ UNCHANGED besidesPipeline

(* lines 226-245                                                           *)
StageDeployment ==
    /\ pc = "deployment"
    /\ LET callee == IF pipeline.config.dev_mode THEN "deploy_semantic_model_dev"
                     ELSE "deploy_semantic_model_prod"
       IN  \/ /\ pipeline' = [pipeline EXCEPT
                    !.called = Append(@, callee),
                    !.outcome = <<[mode |-> "fabric", model_id |-> "model-id",
                                   model_name |-> pipeline.config.model_name]>>]
              /\ pc' = "returned"
           \/ \E e \in ExceptionTypes : StageFails("deployment", callee, e)
    /\ UNCHANGED besidesPipeline

NextPipeline ==
    \/ StageConnection
    \/ StageDiscovery
    \/ StageFiltering
    \/ StageClassification
    \/ StageRelationships
    \/ StageResolution
    \/ StageTmdlGeneration
    \/ StageOutput
    \/ StageDeployment

SpecPipeline == InitPipeline /\ [][NextPipeline]_vars

----------------------------------------------------------------------------
(* fabric/deployment.py and fabric/polling.py: deploy_semantic_model_dev   *)
(* and deploy_semantic_model_prod against a workspace.  The requests the   *)
(* call sends are recorded in the order they are sent; the service answers *)
(* each with a status or an error.  No id is written "None".               *)

(* the display name the call deploys under                                 *)
ModelName == "MyModel"

(* the semantic models the workspace lists: up to two of these, in any     *)
(* order -- two with the deployed name, one with another name and one that *)
(* differs from the deployed name in case only                             *)
WorkspaceModelLists ==
    DistinctSeqs({[id |-> "model-1", displayName |-> "MyModel"],
                  [id |-> "model-2", displayName |-> "MyModel"],
                  [id |-> "model-3", displayName |-> "Other"],
                  [id |-> "model-4", displayName |-> "mymodel"]}, 2)

(* find_semantic_model_by_name, lines 33-38                                *)
find_semantic_model_by_name(models, model_name) ==
    LET matches == SelectSeq(models, LAMBDA m : m.displayName = model_name)
    IN  IF matches # <<>> THEN matches[1].id ELSE "None"

(* the truth value of an optional string: neither None nor empty           *)
Truthy(s) == s # "None" /\ s # ""

(* deployment.py:125-126, f"{model_name}_{timestamp}" at the time of the   *)
(* call                                                                    *)
TimestampedName(model_name) ==
    IF model_name = "MyModel" THEN "MyModel_20260210T120000Z" ELSE "_20260210T120000Z"

(* the id in the answer 201 to a create request, and the id in the result  *)
(* of a create operation                                                   *)
CreatedModelId == "model-created"

OperationResultId == "model-from-operation"

(* polling.py:18, stop_after_attempt(60)                                   *)
MaxPollAttempts == 60

(* the states the service reports of a long running operation              *)
OperationStatuses == {"NotStarted", "Running", "Succeeded", "Failed"}

InitDeploy ==
    /\ deployment \in {[mode |-> m, model_name |-> ModelName, confirm_overwrite |-> c,
                        workspace_models |-> w, requests |-> <<>>,
                        existing_id |-> "None", op_id |-> "None",
                        attempts |-> 0, status |-> "None", outcome |-> <<>>]
                         : m \in {"dev", "prod"}, c \in BOOLEAN, w \in WorkspaceModelLists}
    /\ deployment.mode = "dev" => ~deployment.confirm_overwrite
    /\ pc = "start"
    /\ tables = <<>>
    /\ key_prefixes = <<>>
    /\ classifications = <<>>
    /\ relationships = <<>>
    /\ calls = NotInUse
    /\ column = NotInUse
    /\ filtering = NotInUse
    /\ pipeline = NotInUse
    /\ folder = NotInUse
    /\ output = NotInUse

besidesDeployment == <<tables, classifications, key_prefixes, relationships,
                       calls, column, filtering, pipeline, folder, output>>

(* the call ends raising an exception of the given type                    *)
DeployRaises(d, type) ==
    /\ deployment' = [d EXCEPT !.outcome = <<[exception |-> type]>>]
    /\ pc' = "done"

(* the call returns a model id                                             *)
DeployReturns(d, model_id) ==
    /\ deployment' = [d EXCEPT !.outcome = <<[returned |-> model_id]>>]
    /\ pc' = "done"

(* create_semantic_model, lines 56-72, and what the caller does with its   *)
(* pair: 201 gives the new id, which is returned; 202 with an operation id *)
(* is polled; 202 without one, or another status, fails the assertion      *)
CreateRequested(display_name) ==
    LET sent == [deployment EXCEPT !.requests =
                    Append(@, [kind |-> "create", displayName |-> display_name])]
    IN  \/ DeployRaises(sent, "HTTPError")
        \/ DeployReturns(sent, CreatedModelId)
        \/ /\ deployment' = [sent EXCEPT !.op_id = "op-1"]
           /\ pc' = "polling"
        \/ DeployRaises(sent, "AssertionError")

(* deploy_semantic_model_dev, lines 118-141, up to the answer to create    *)
CreateDev ==
    /\ pc = "start"
    /\ deployment.mode = "dev"
    /\ \/ DeployRaises(deployment, "ClientAuthenticationError")
       \/ CreateRequested(TimestampedName(deployment.model_name))
    /\ UNCHANGED besidesDeployment

(* lines 161-168: token, workspace, and the lookup of the model by name    *)
FindExisting ==
    /\ pc = "start"
    /\ deployment.mode = "prod"
    /\ LET sent == [deployment EXCEPT !.requests = Append(@, [kind |-> "list"])]
       IN  \/ DeployRaises(deployment, "ClientAuthenticationError")
           \/ DeployRaises(sent, "HTTPError")
           \/ /\ deployment' = [sent EXCEPT !.existing_id =
                    find_semantic_model_by_name(deployment.workspace_models,
                                                deployment.model_name)]
              /\ pc' = "found"
    /\ UNCHANGED besidesDeployment

(* lines 170-175                                                           *)
RefuseOverwrite ==
    /\ pc = "found"
    /\ Truthy(deployment.existing_id) /\ ~deployment.confirm_overwrite
    /\ DeployRaises(deployment, "ValueError")
    /\ UNCHANGED besidesDeployment

(* UpdateExisting without the test of confirm_overwrite                    *)
UpdateExisting_NoConsent ==
    /\ pc = "found"
    /\ Truthy(deployment.existing_id)
    /\ LET sent == [deployment EXCEPT !.requests =
                       Append(@, [kind |-> "update", id |-> deployment.existing_id])]
       IN  \/ DeployRaises(sent, "HTTPError")
           \/ DeployReturns(sent, deployment.existing_id)
           \/ /\ deployment' = [sent EXCEPT !.op_id = "op-1"]
              /\ pc' = "polling"
    /\ UNCHANGED besidesDeployment

(* lines 177-185 with update_semantic_model_definition: 200, or 202 with   *)
(* no operation id, returns at once; 202 with an operation id is polled    *)
UpdateExisting ==
    /\ pc = "found"
    /\ Truthy(deployment.existing_id) /\ deployment.confirm_overwrite
    /\ LET sent == [deployment EXCEPT !.requests =
                       Append(@, [kind |-> "update", id |-> deployment.existing_id])]
       IN  \/ DeployRaises(sent, "HTTPError")
           \/ DeployReturns(sent, deployment.existing_id)
           \/ /\ deployment' = [sent EXCEPT !.op_id = "op-1"]
              /\ pc' = "polling"
    /\ UNCHANGED besidesDeployment

(* lines 186-195 with create_semantic_model                                *)
CreateNew ==
    /\ pc = "found"
    /\ ~Truthy(deployment.existing_id)
    /\ CreateRequested(deployment.model_name)
    /\ UNCHANGED besidesDeployment

(* polling.py:11-13, _is_still_running                                     *)
is_still_running(status) == status = "Running"

(* what the caller of poll_operation does when it returns: the update path *)
(* returns the existing id (deployment.py:183-185), the create paths go on *)
(* to fetch the result (136-137, 189-191)                                  *)
PollReturns(d) ==
    IF Truthy(d.existing_id)
    THEN DeployReturns(d, d.existing_id)
    ELSE deployment' = d /\ pc' = "result"

(* PollAttempt that fetches the result without a status request            *)
PollAttempt_NoPolling ==
    /\ pc = "polling"
    /\ PollReturns(deployment)
    /\ UNCHANGED besidesDeployment

(* PollAttempt retrying whatever the number of attempts made               *)
PollAttempt_NoStop ==
    /\ pc = "polling"
    /\ LET sent == IF deployment.attempts > MaxPollAttempts THEN deployment
                   ELSE [deployment EXCEPT
                           !.requests = Append(@, [kind |-> "poll",
                                                   operation |-> deployment.op_id]),
                           !.attempts = @ + 1, !.status = "None"]
       IN  \/ DeployRaises(sent, "HTTPError")
           \/ \E status \in OperationStatuses :
                 LET answered == [sent EXCEPT !.status = status]
                 IN  IF status = "Failed" THEN DeployRaises(answered, "RuntimeError")
                     ELSE IF is_still_running(status)
                     THEN deployment' = answered /\ pc' = "polling"
                     ELSE PollReturns(answered)
    /\ UNCHANGED besidesDeployment

(* polling.py:16-47, one attempt of poll_operation under the retry         *)
(* decorator: a status request; an error of the request or a Failed status *)
(* raises and is not retried; a Running status is retried unless this was  *)
(* the last attempt allowed, which raises RetryError; any other status is  *)
(* returned to the caller.  status is the status the last request was      *)
(* answered with, "None" if it was answered with an error.                 *)
PollAttempt ==
    /\ pc = "polling"
    /\ LET sent == [deployment EXCEPT
                       !.requests = Append(@, [kind |-> "poll", operation |-> deployment.op_id]),
                       !.attempts = @ + 1, !.status = "None"]
       IN  \/ DeployRaises(sent, "HTTPError")
           \/ \E status \in OperationStatuses :
                 LET answered == [sent EXCEPT !.status = status]
                 IN  IF status = "Failed" THEN DeployRaises(answered, "RuntimeError")
                     ELSE IF is_still_running(status)
                     THEN IF answered.attempts >= MaxPollAttempts
                          THEN DeployRaises(answered, "RetryError")
                          ELSE deployment' = answered /\ pc' = "polling"
                     ELSE PollReturns(answered)
    /\ UNCHANGED besidesDeployment

(* deployment.py:137-141 and 191-195: get_operation_result and result["id"] *)
GetOperationResult ==
    /\ pc = "result"
    /\ LET sent == [deployment EXCEPT !.requests =
                       Append(@, [kind |-> "result", operation |-> deployment.op_id])]
       IN  \/ DeployRaises(sent, "HTTPError")
           \/ DeployReturns(sent, OperationResultId)
    /\ UNCHANGED besidesDeployment

NextDeploy ==
    \/ CreateDev
    \/ FindExisting
    \/ RefuseOverwrite
    \/ UpdateExisting
    \/ CreateNew
    \/ PollAttempt
    \/ GetOperationResult

SpecDeploy == InitDeploy /\ [][NextDeploy]_vars

(* every request is answered and the call goes on to its next step         *)
SpecDeployFair == SpecDeploy /\ WF_vars(NextDeploy)

----------------------------------------------------------------------------
(* output/writer.py: write_tmdl_folder over a folder on disk.  A file's    *)
(* content is a sequence of lines (of fields, in a JSON file), each a      *)
(* sequence of words; a line ends with a line feed, and the word "\r" is a  *)
(* carriage return.  A path on disk holds <<content>>, or <<>> if no file  *)
(* is there.                                                               *)

(* the relative paths of the files, in the order sorted() gives them       *)
PathOrder == <<"definition.pbism", "definition/model.tmdl">>

Paths == {PathOrder[i] : i \in DOMAIN PathOrder}

(* the suffix of a path                                                    *)
PathSuffix(path) == IF path = "definition.pbism" THEN ".pbism" ELSE ".tmdl"

(* the word every watermark carries                                        *)
WatermarkMarker == "semantic-model-generator"

(* output/watermark.py, generate_watermark_tmdl: the /// header            *)
generate_watermark_tmdl(version, timestamp) ==
    <<"///", "Auto-generated by", WatermarkMarker, version, timestamp, "DO NOT EDIT">>

(* output/watermark.py, generate_watermark_json: the _comment field        *)
generate_watermark_json(version, timestamp) ==
    <<"_comment", "Auto-generated by", WatermarkMarker, version, timestamp, "DO NOT EDIT">>

(* a JSON document parsed and written again: the fields without the white  *)
(* space between them                                                      *)
JsonRoundTrip(content) ==
    [i \in DOMAIN content |-> SelectSeq(content[i], LAMBDA w : w # "\r")]

(* output/watermark.py, add_watermark_to_content: the _comment field first *)
(* in a JSON file, which is parsed and written again; the /// header       *)
(* before the content as it is in any other                                *)
add_watermark_to_content(filename, content, version, timestamp) ==
    IF PathSuffix(filename) \in {".json", ".pbism", ".platform"}
    THEN <<generate_watermark_json(version, timestamp)>> \o JsonRoundTrip(content)
    ELSE <<generate_watermark_tmdl(version, timestamp)>> \o content

(* output/watermark.py, is_auto_generated: the content carries the marker  *)
is_auto_generated(content) ==
    \E i \in DOMAIN content : \E j \in DOMAIN content[i] : content[i][j] = WatermarkMarker

(* the version and the explicit timestamp of the call                      *)
WriteVersion == "1.0.0"

WriteTimestamp == "20260210T120000Z"

(* the lines of one line read in text mode: it ends at a carriage return;  *)
(* a carriage return right before the line feed adds no line               *)
RECURSIVE SplitAtCarriageReturns(_)
SplitAtCarriageReturns(line) ==
    IF \A k \in DOMAIN line : line[k] # "\r" THEN <<line>>
    ELSE LET k == CHOOSE k \in DOMAIN line :
                     line[k] = "\r" /\ \A j \in 1..(k - 1) : line[j] # "\r"
         IN  <<SubSeq(line, 1, k - 1)>>
             \o (IF k = Len(line) THEN <<>>
                 ELSE SplitAtCarriageReturns(SubSeq(line, k + 1, Len(line))))

(* writer.py:114, full_path.read_text(encoding="utf-8"): the file is read  *)
(* in text mode, where "\r\n" and "\r" are read as "\n"                    *)
RECURSIVE read_text(_)
read_text(content) ==
    IF content = <<>> THEN <<>>
    ELSE SplitAtCarriageReturns(content[1]) \o read_text(Tail(content))

(* the contents handed over: one line, two lines, and one line ending in   *)
(* "\r\n"                                                                  *)
GeneratedContents ==
    {<<<<"table A">>>>, <<<<"table A">>, <<"column B">>>>, <<<<"table A", "\r">>>>}

(* files: up to two paths, in any order of insertion                       *)
FileDicts ==
    UNION {{[i \in DOMAIN q |-> [path |-> q[i], content |-> c[i]]]
              : c \in [DOMAIN q -> GeneratedContents]}
           : q \in DistinctSeqs(Paths, 2)}

(* what a path may hold before the call: nothing, hand-written content     *)
(* (equal to generated content, other, or mentioning the marker), or       *)
(* content generated earlier by this or an older version                   *)
DiskContents(path) ==
    {<<>>,
     <<<<<<"table A">>>>>>,
     <<<<<<"table A">>, <<"measure M">>>>>>,
     <<<<<<"///", "see", WatermarkMarker>>, <<"table A">>>>>>,
     <<add_watermark_to_content(path, <<<<"table A">>>>, WriteVersion, WriteTimestamp)>>,
     <<add_watermark_to_content(path, <<<<"table A">>>>, "0.9.0", "20250101T000000Z")>>}

Disks ==
    {dsk \in [Paths -> UNION {DiskContents(p) : p \in Paths}] :
        \A p \in Paths : dsk[p] \in DiskContents(p)}

InitWrite ==
    /\ \E files \in FileDicts, dev_mode \in BOOLEAN, overwrite \in BOOLEAN,
          folder_exists \in BOOLEAN, dsk \in Disks :
          /\ ~folder_exists => \A p \in Paths : dsk[p] = <<>>
          /\ folder = [files |-> files, dev_mode |-> dev_mode, overwrite |-> overwrite,
                       folder_exists |-> folder_exists, before |-> dsk, disk |-> dsk,
                       next |-> 1, written |-> <<>>, skipped |-> <<>>,
                       unchanged |-> <<>>, outcome |-> <<>>,
                       call |-> 1, first |-> <<>>]
    /\ pc = "start"
    /\ tables = <<>>
    /\ key_prefixes = <<>>
    /\ classifications = <<>>
    /\ relationships = <<>>
    /\ calls = NotInUse
    /\ column = NotInUse
    /\ filtering = NotInUse
    /\ pipeline = NotInUse
    /\ deployment = NotInUse
    /\ output = NotInUse

besidesFolder == <<tables, classifications, key_prefixes, relationships,
                   calls, column, filtering, pipeline, deployment, output>>

(* sorted() of a list of paths                                             *)
SortedPaths(paths) ==
    SelectSeq(PathOrder, LAMBDA p : \E i \in DOMAIN paths : paths[i] = p)

(* lines 78-102: the folder, the protection in prod mode, the directories  *)
PrepareFolder ==
    /\ pc = "start"
    /\ IF ~folder.dev_mode /\ folder.folder_exists /\ ~folder.overwrite
       THEN /\ folder' = [folder EXCEPT !.outcome = <<[exception |-> "FileExistsError"]>>]
            /\ pc' = "done"
       ELSE /\ folder' = [folder EXCEPT !.folder_exists = TRUE]
            /\ pc' = "files"
    /\ UNCHANGED besidesFolder

(* write_file_atomically: the file holds the content, or the write fails   *)
(* and the file is as it was                                               *)
WriteAtomically(path, content, list) ==
    \/ /\ folder' = [folder EXCEPT !.disk[path] = <<content>>,
                                   ![list] = Append(@, path),
                                   !.next = @ + 1]
       /\ pc' = "files"
    \/ /\ folder' = [folder EXCEPT !.outcome = <<[exception |-> "OSError"]>>]
       /\ pc' = "done"

(* WriteFile that overwrites every file whose content differs              *)
WriteFile_OverwriteDiffering ==
    /\ pc = "files"
    /\ folder.next <= Len(folder.files)
    /\ LET relative_path == folder.files[folder.next].path
           content == folder.files[folder.next].content
           watermarked_content ==
               add_watermark_to_content(relative_path, content, WriteVersion, WriteTimestamp)
           exists == folder.disk[relative_path] # <<>>
           existing == read_text(folder.disk[relative_path][1])
       IN  IF ~exists
           THEN WriteAtomically(relative_path, watermarked_content, "written")
           ELSE IF existing = watermarked_content
           THEN /\ folder' = [folder EXCEPT !.unchanged = Append(@, relative_path),
                                            !.next = @ + 1]
                /\ pc' = "files"
           ELSE WriteAtomically(relative_path, watermarked_content, "written")
    /\ UNCHANGED besidesFolder

(* lines 104-125: one pass of the loop over files.items()                  *)
WriteFile ==
    /\ pc = "files"
    /\ folder.next <= Len(folder.files)
    /\ LET relative_path == folder.files[folder.next].path
           content == folder.files[folder.next].content
           watermarked_content ==
               add_watermark_to_content(relative_path, content, WriteVersion, WriteTimestamp)
           exists == folder.disk[relative_path] # <<>>
           existing == read_text(folder.disk[relative_path][1])
       IN  IF ~exists
           THEN WriteAtomically(relative_path, watermarked_content, "written")
           ELSE IF existing = watermarked_content
           THEN /\ folder' = [folder EXCEPT !.unchanged = Append(@, relative_path),
                                            !.next = @ + 1]
                /\ pc' = "files"
           ELSE IF is_auto_generated(existing)
           THEN WriteAtomically(relative_path, watermarked_content, "written")
           ELSE /\ folder' = [folder EXCEPT !.skipped = Append(@, relative_path),
                                            !.next = @ + 1]
                /\ pc' = "files"
    /\ UNCHANGED besidesFolder

(* lines 127-133: the summary, each list sorted                            *)
ReturnSummary ==
    /\ pc = "files"
    /\ folder.next > Len(folder.files)
    /\ folder' = [folder EXCEPT !.outcome =
                     <<[written |-> SortedPaths(folder.written),
                        skipped |-> SortedPaths(folder.skipped),
                        unchanged |-> SortedPaths(folder.unchanged)]>>]
    /\ pc' = "done"
    /\ UNCHANGED besidesFolder

(* the caller calls write_tmdl_folder once more with the arguments of the  *)
(* first call; what the first call returned and left on disk is kept       *)
CallAgain ==
    /\ pc = "done"
    /\ folder.call = 1
    /\ "written" \in DOMAIN folder.outcome[1]
    /\ folder' = [folder EXCEPT !.call = 2,
                                !.first = <<[summary |-> folder.outcome[1],
                                             disk |-> folder.disk]>>,
                                !.next = 1, !.written = <<>>, !.skipped = <<>>,
                                !.unchanged = <<>>, !.outcome = <<>>]
    /\ pc' = "start"
    /\ UNCHANGED besidesFolder

NextWrite ==
    \/ PrepareFolder
    \/ WriteFile
    \/ ReturnSummary
    \/ CallAgain

SpecWrite == InitWrite /\ [][NextWrite]_vars

----------------------------------------------------------------------------
(* infer_relationships on tables whose names hold a dot, as delimited      *)
(* identifiers of a warehouse may: a dimension S.A and the facts S.B and   *)
(* S.B.K_A ("S" and "B.K_A"), classified by classify_tables.               *)

(* the key columns of the dimension: K_A and K_A.K                         *)
DottedDimensionColumns ==
    {<<Ch.K, Ch.us, Ch.A>>,
     <<Ch.K, Ch.us, Ch.A, Ch.dot, Ch.K>>}

(* the columns of the facts: K_B, K_A_A, K_A.K_A and K_A.K_A.K_A           *)
DottedFactColumns ==
    {<<Ch.K, Ch.us, Ch.B>>,
     <<Ch.K, Ch.us, Ch.A, Ch.us, Ch.A>>,
     <<Ch.K, Ch.us, Ch.A, Ch.dot, Ch.K, Ch.us, Ch.A>>,
     <<Ch.K, Ch.us, Ch.A, Ch.dot, Ch.K, Ch.us, Ch.A, Ch.dot, Ch.K, Ch.us, Ch.A>>}

(* a dimension with one key column and two facts with two each             *)
DottedTableLists ==
    {<<[schema_name |-> <<Ch.S>>, table_name |-> <<Ch.A>>,
        columns |-> <<[name |-> d]>>],
       [schema_name |-> <<Ch.S>>, table_name |-> <<Ch.B>>,
        columns |-> [i \in DOMAIN f |-> [name |-> f[i]]]],
       [schema_name |-> <<Ch.S>>, table_name |-> <<Ch.B, Ch.dot, Ch.K, Ch.us, Ch.A>>,
        columns |-> [i \in DOMAIN g |-> [name |-> g[i]]]]>>
       : d \in DottedDimensionColumns,
         f \in {q \in DistinctSeqs(DottedFactColumns, 2) : Len(q) = 2},
         g \in {q \in DistinctSeqs(DottedFactColumns, 2) : Len(q) = 2}}

InitIds ==
    /\ tables \in DottedTableLists
    /\ key_prefixes = <<<<Ch.K, Ch.us>>>>
    /\ classifications = classify_tables(tables, key_prefixes)
    /\ relationships = <<>>
    /\ pc = "start"
    /\ CoreOnly

SpecIds == InitIds /\ [][Next]_vars

----------------------------------------------------------------------------
(* tmdl/generate.py: generate_all_tmdl over a list of tables.  A generated *)
(* file is kept as the record of the values its text is composed of; the   *)
(* returned dict is insertion-ordered, a sequence of (key, val) entries.   *)
(* A path composed by an f-string is the record of its parts; a literal    *)
(* path is the record of the literal.                                      *)

(* utils/identifiers.py, quote_tmdl_identifier: quoted when the name holds *)
(* white space, ".", "=", ":" or "'"; a "'" inside is doubled.  The        *)
(* returned str is the field str of the result.                            *)
quote_tmdl_identifier(identifier) ==
    LET quote == 39
        special == {Ch.sp, Ch.dot, 61, Ch.colon, quote}
        needs_quoting == \E i \in DOMAIN identifier : identifier[i] \in special
        Escaped[i \in 0..Len(identifier)] ==
            IF i = 0 THEN <<>>
            ELSE Escaped[i - 1] \o (IF identifier[i] = quote THEN <<quote, quote>>
                                    ELSE <<identifier[i]>>)
    IN  IF identifier = <<>> THEN Exception("ValueError")
        ELSE IF ~needs_quoting THEN [str |-> identifier]
        ELSE [str |-> <<quote>> \o Escaped[Len(identifier)] \o <<quote>>]

(* the literals "table" and "column"                                       *)
TableType == <<116, 97, 98, 108, 101>>

ColumnType == <<99, 111, 108, 117, 109, 110>>

(* the catalog the partitions refer to                                     *)
CatalogName == "my_warehouse"

(* lines 138-180: the values of a column section                           *)
generate_column_tmdl(col, table_qualified_name) ==
    LET quoted_name == quote_tmdl_identifier(col.name)
    IN  IF IsException(quoted_name) THEN quoted_name
        ELSE [column |-> quoted_name.str,
              lineageTag |-> generate_deterministic_uuid(ColumnType,
                                 table_qualified_name \o <<Ch.dot>> \o col.name),
              sourceColumn |-> col.name]

(* lines 182-216: the values of the partition section                      *)
generate_partition_tmdl(table, partition_name, catalog_name) ==
    LET quoted_partition == quote_tmdl_identifier(partition_name)
    IN  IF IsException(quoted_partition) THEN quoted_partition
        ELSE [partition |-> quoted_partition.str,
              entityName |-> table.table_name,
              schemaName |-> table.schema_name,
              expressionSource |-> catalog_name]

(* sorted(columns, key=lambda c: c.name)                                   *)
SortedByName(columns) ==
    Undecorate(SortKeyed([i \in DOMAIN columns |->
                             [key |-> <<columns[i].name>>, val |-> columns[i]]]))

(* lines 219-277: key columns first, each group by name; the               *)
(* classification is not used                                              *)
generate_table_tmdl(table, classification, prefixes, catalog_name) ==
    LET quoted_table == quote_tmdl_identifier(table.table_name)
        lineage_tag == generate_deterministic_uuid(TableType, Qualified(table))
        key_columns == SelectSeq(table.columns, LAMBDA c : IsKeyColumn(c.name, prefixes))
        non_key_columns == SelectSeq(table.columns, LAMBDA c : ~IsKeyColumn(c.name, prefixes))
        all_columns == SortedByName(key_columns) \o SortedByName(non_key_columns)
        column_sections == [i \in DOMAIN all_columns |->
                               generate_column_tmdl(all_columns[i], Qualified(table))]
        partition_section == generate_partition_tmdl(table, table.table_name, catalog_name)
    IN  IF IsException(quoted_table) THEN quoted_table
        ELSE IF \E i \in DOMAIN column_sections : IsException(column_sections[i])
        THEN Exception("ValueError")
        ELSE [table |-> quoted_table.str,
              lineageTag |-> lineage_tag,
              partition |-> <<partition_section>>,
              columns |-> column_sections]

(* lines 373-382, sort_key: the rank of the classification, then the       *)
(* schema and the table name.  The rank is kept as a string of one code    *)
(* point so that the tuple compares as Python compares (int, str, str).    *)
classification_order(classification) ==
    IF classification = TableClassification.DIMENSION THEN 0
    ELSE IF classification = TableClassification.FACT THEN 1
    ELSE 2

(* classifications.get((schema_name, table_name), UNCLASSIFIED)            *)
ClassificationOrUnclassified(cls, t) ==
    IF <<t.schema_name, t.table_name>> \in DOMAIN cls
    THEN cls[<<t.schema_name, t.table_name>>]
    ELSE TableClassification.UNCLASSIFIED

sort_key(cls, t) ==
    <<<<classification_order(ClassificationOrUnclassified(cls, t))>>,
      t.schema_name, t.table_name>>

(* line 384                                                                *)
SortedTables(tbls, cls) ==
    Undecorate(SortKeyed([i \in DOMAIN tbls |->
                             [key |-> sort_key(cls, tbls[i]), val |-> tbls[i]]]))

(* a literal key of the dict                                               *)
LiteralPath(s) == [literal |-> s]

(* line 409: f"definition/tables/{table.table_name}.tmdl"                  *)
table_path(table) ==
    [folder |-> "definition/tables/", stem |-> table.table_name, suffix |-> ".tmdl"]

(* lines 393-402: the files that do not depend on one table, each kept as  *)
(* the generator that writes it                                            *)
MetadataFiles ==
    <<[key |-> LiteralPath(".platform"), val |-> "generate_platform_json"],
      [key |-> LiteralPath("definition.pbism"), val |-> "generate_definition_pbism_json"],
      [key |-> LiteralPath("definition/database.tmdl"), val |-> "generate_database_tmdl"],
      [key |-> LiteralPath("definition/model.tmdl"), val |-> "generate_model_tmdl"],
      [key |-> LiteralPath("definition/expressions.tmdl"), val |-> "generate_expressions_tmdl"],
      [key |-> LiteralPath("definition/relationships.tmdl"),
       val |-> "generate_relationships_tmdl"]>>

(* line 410: the content generated for each of the sorted tables; a call   *)
(* that raises leaves the exception in place of the content                *)
TableContents(sorted_tables, cls, prefixes) ==
    [i \in DOMAIN sorted_tables |->
        generate_table_tmdl(sorted_tables[i],
                            ClassificationOrUnclassified(cls, sorted_tables[i]),
                            prefixes, CatalogName)]

(* lines 405-410: the loop over the sorted tables, up to the n-th          *)
RECURSIVE TableFiles(_, _, _)
TableFiles(sorted_tables, contents, n) ==
    IF n = 0 THEN MetadataFiles
    ELSE DictSet(TableFiles(sorted_tables, contents, n - 1),
                 table_path(sorted_tables[n]), contents[n])

(* the exception generate_all_tmdl lets through: that of the first table   *)
(* in sorted order whose generation raises, <<>> when none does            *)
RaisedBy(tbls, cls, prefixes) ==
    LET sorted_tables == SortedTables(tbls, cls)
        contents == TableContents(sorted_tables, cls, prefixes)
        raising == {i \in DOMAIN contents : IsException(contents[i])}
    IN  IF raising = {} THEN <<>>
        ELSE <<contents[CHOOSE i \in raising : \A j \in raising : i <= j]>>

(* lines 340-415: the dict returned when no generation raises              *)
generate_all_tmdl(tbls, cls, prefixes) ==
    LET sorted_tables == SortedTables(tbls, cls)
        contents == TableContents(sorted_tables, cls, prefixes)
    IN  Append(TableFiles(sorted_tables, contents, Len(sorted_tables)),
               [key |-> LiteralPath("diagramLayout.json"),
                val |-> "generate_diagram_layout_json"])

(* the tables of a warehouse have pairwise distinct (schema, table): S.A   *)
(* and T.A share the table name, S.A and S.B the schema; one table has an  *)
(* empty name                                                              *)
TmdlTableIds ==
    {[schema_name |-> <<Ch.S>>, table_name |-> <<Ch.A>>],
     [schema_name |-> <<Ch.T>>, table_name |-> <<Ch.A>>],
     [schema_name |-> <<Ch.S>>, table_name |-> <<Ch.B>>],
     [schema_name |-> <<Ch.S>>, table_name |-> <<>>]}

(* no key column, one key column, two key columns out of order             *)
TmdlColumnLists ==
    {<<[name |-> <<Ch.N>>]>>,
     <<[name |-> <<Ch.N>>], [name |-> <<Ch.K, Ch.us, Ch.A>>]>>,
     <<[name |-> <<Ch.K, Ch.us, Ch.B>>], [name |-> <<Ch.K, Ch.us, Ch.A>>]>>}

(* tables in one call                                                      *)
MaxTmdlTables == 3

TmdlTableLists ==
    UNION {{[i \in DOMAIN ids |-> [schema_name |-> ids[i].schema_name,
                                   table_name  |-> ids[i].table_name,
                                   columns     |-> cs[i]]]
            : cs \in [DOMAIN ids -> TmdlColumnLists]}
           : ids \in DistinctSeqs(TmdlTableIds, MaxTmdlTables)}

(* the map is the one classify_tables returns, or an empty one             *)
InitTmdl ==
    /\ tables \in TmdlTableLists
    /\ key_prefixes = <<<<Ch.K, Ch.us>>>>
    /\ classifications \in {classify_tables(tables, key_prefixes), <<>>}
    /\ relationships = <<>>
    /\ pc = "start"
    /\ calls = NotInUse
    /\ column = NotInUse
    /\ filtering = NotInUse
    /\ pipeline = NotInUse
    /\ deployment = NotInUse
    /\ folder = NotInUse
    /\ output = <<>>

GenerateAllTmdl ==
    /\ pc = "start"
    /\ LET raised == RaisedBy(tables, classifications, key_prefixes)
       IN  IF raised # <<>>
           THEN /\ output' = raised
                /\ pc' = "raised"
           ELSE /\ output' = <<generate_all_tmdl(tables, classifications, key_prefixes)>>
                /\ pc' = "generated"
    /\ UNCHANGED <<tables, classifications, key_prefixes, relationships>>
    /\ UNCHANGED <<calls, column, filtering, pipeline, deployment, folder>>

NextTmdl == GenerateAllTmdl

SpecTmdl == InitTmdl /\ [][NextTmdl]_vars

----------------------------------------------------------------------------
(* Properties of infer_relationships                                       *)

Inferred == pc = "inferred"

(* the indices of the returned relationships between one pair of tables    *)
PairIdx(from_table, to_table) ==
    {i \in DOMAIN relationships : /\ relationships[i].from_table = from_table
                                  /\ relationships[i].to_table = to_table}

SamePair(i, j) ==
    /\ relationships[i].from_table = relationships[j].from_table
    /\ relationships[i].to_table = relationships[j].to_table

(* a <= b for str, by the first position where they differ                 *)
StrLeq(a, b) ==
    \/ /\ Len(a) <= Len(b)
       /\ \A n \in 1..Len(a) : a[n] = b[n]
    \/ \E n \in 1..Len(a) :
          /\ n <= Len(b)
          /\ \A m \in 1..(n - 1) : a[m] = b[m]
          /\ a[n] < b[n]

(* the sequences with the same elements as s in another order              *)
Reorderings(s) ==
    {[i \in DOMAIN s |-> s[p[i]]] : p \in Permutations(DOMAIN s)}

(* C1: between any (from_table, to_table) pair the result holds at most    *)
(* one relationship with is_active = true.                                 *)
C1_AtMostOneActivePerPair ==
    Inferred =>
        \A i, j \in DOMAIN relationships :
            (i # j /\ SamePair(i, j)) =>
                ~(relationships[i].is_active /\ relationships[j].is_active)

(* a pair of tables with an active and an inactive relationship            *)
C1_Witness ==
    /\ Inferred
    /\ \E i, j \in DOMAIN relationships :
          /\ i # j
          /\ SamePair(i, j)
          /\ relationships[i].is_active
          /\ ~relationships[j].is_active

(* C2: when a fact references one dimension through two or more key        *)
(* columns, there is one relationship per column, exactly one of them is   *)
(* active, the active one has the lexicographically smallest from_column, *)
(* and reordering the columns of the fact table does not change the result.*)
C2_RolePlayingActiveIsSmallest ==
    Inferred =>
        /\ \A i \in DOMAIN relationships :
              LET group == PairIdx(relationships[i].from_table,
                                   relationships[i].to_table)
              IN  Cardinality(group) >= 2 =>
                    /\ Cardinality({relationships[j].from_column : j \in group})
                          = Cardinality(group)
                    /\ Cardinality({j \in group : relationships[j].is_active}) = 1
                    /\ \A j \in group :
                          relationships[j].is_active =>
                              \A n \in group :
                                  StrLeq(relationships[j].from_column,
                                         relationships[n].from_column)
        /\ \A t \in DOMAIN tables :
              ClassificationOf(classifications, tables[t]) = TableClassification.FACT =>
                  \A cols \in Reorderings(tables[t].columns) :
                      infer_relationships([tables EXCEPT ![t].columns = cols],
                                          classifications, key_prefixes)
                          = relationships

(* a fact whose columns to one dimension are not in lexicographic order:   *)
(* the active relationship comes from the later column                     *)
C2_Witness ==
    /\ Inferred
    /\ \E t \in DOMAIN tables : \E a, b \in DOMAIN tables[t].columns :
          /\ a < b
          /\ ~StrLeq(tables[t].columns[a].name, tables[t].columns[b].name)
          /\ \E i, j \in DOMAIN relationships :
                /\ SamePair(i, j)
                /\ relationships[i].from_table = Qualified(tables[t])
                /\ relationships[i].from_column = tables[t].columns[a].name
                /\ relationships[j].from_column = tables[t].columns[b].name
                /\ relationships[j].is_active
                /\ ~relationships[i].is_active

(* the tables the map marks Fact / Dimension                               *)
IsFact(t) == ClassificationOf(classifications, t) = TableClassification.FACT
IsDimension(t) == ClassificationOf(classifications, t) = TableClassification.DIMENSION

(* the names of the key columns of a table                                 *)
KeyNames(t) ==
    {t.columns[c].name : c \in {n \in DOMAIN t.columns :
                                  \E j \in DOMAIN key_prefixes :
                                      StartsWith(t.columns[n].name, key_prefixes[j])}}

(* a bare prefix                                                           *)
IsBarePrefix(name) == name \in {key_prefixes[j] : j \in DOMAIN key_prefixes}

(* name equals key, or starts with key followed by an underscore           *)
NameMatch(name, key) == name = key \/ StartsWith(name, key \o <<Ch.us>>)

(* the name after its first matching prefix                                *)
Base(name) == strip_prefix(name, key_prefixes)

(* a dimension whose only key column is not a bare prefix                  *)
SingleKeyDimension(t) ==
    /\ IsDimension(t)
    /\ Cardinality(KeyNames(t)) = 1
    /\ \A k \in KeyNames(t) : ~IsBarePrefix(k)

(* C3 as stated: a relationship joins a fact column and a dimension key    *)
(* exactly when the fact column NAME equals the dimension key column NAME  *)
(* or starts with it followed by an underscore.                            *)
C3_MatchOnColumnNames ==
    Inferred =>
        /\ \A i \in DOMAIN relationships :
              NameMatch(relationships[i].from_column, relationships[i].to_column)
        /\ \A f, d \in DOMAIN tables :
              (IsFact(tables[f]) /\ SingleKeyDimension(tables[d])) =>
                  \A c \in KeyNames(tables[f]), k \in KeyNames(tables[d]) :
                      (~IsBarePrefix(c) /\ NameMatch(c, k)) =>
                          \E i \in DOMAIN relationships :
                              /\ relationships[i].from_table = Qualified(tables[f])
                              /\ relationships[i].from_column = c
                              /\ relationships[i].to_table = Qualified(tables[d])

(* C3 amended: the names are compared after stripping the first matching   *)
(* key prefix from each.  Every relationship joins a fact column and a     *)
(* dimension key whose stripped names are equal or whose stripped fact     *)
(* name starts with the stripped key name followed by an underscore; and a *)
(* fact key column that is not a bare prefix gets a relationship exactly   *)
(* when some single-key dimension matches it in that way.                  *)
C3_MatchOnStrippedNames ==
    Inferred =>
        /\ \A i \in DOMAIN relationships :
              NameMatch(Base(relationships[i].from_column),
                        Base(relationships[i].to_column))
        /\ \A f \in DOMAIN tables :
              IsFact(tables[f]) =>
                  \A c \in KeyNames(tables[f]) :
                      ~IsBarePrefix(c) =>
                          ( (\E d \in DOMAIN tables :
                                /\ SingleKeyDimension(tables[d])
                                /\ \E k \in KeyNames(tables[d]) :
                                      NameMatch(Base(c), Base(k)))
                            <=>
                            (\E i \in DOMAIN relationships :
                                /\ relationships[i].from_table = Qualified(tables[f])
                                /\ relationships[i].from_column = c) )

(* a relationship between two columns whose names do not match and whose  *)
(* stripped names, taken with different prefixes, are equal                *)
C3_Witness ==
    /\ Inferred
    /\ \E i \in DOMAIN relationships :
          /\ ~NameMatch(relationships[i].from_column, relationships[i].to_column)
          /\ Base(relationships[i].from_column) = Base(relationships[i].to_column)

(* C5: a column named exactly as a key prefix is the from_column or the    *)
(* to_column of no relationship, and the result is the same without that   *)
(* column in its fact table.                                               *)
C5_BarePrefixColumnsIgnored ==
    Inferred =>
        /\ \A i \in DOMAIN relationships :
              /\ ~IsBarePrefix(relationships[i].from_column)
              /\ ~IsBarePrefix(relationships[i].to_column)
        /\ \A t \in DOMAIN tables :
              IsFact(tables[t]) =>
                  \A c \in DOMAIN tables[t].columns :
                      IsBarePrefix(tables[t].columns[c].name) =>
                          infer_relationships(
                              [tables EXCEPT ![t].columns =
                                  SubSeq(@, 1, c - 1) \o SubSeq(@, c + 1, Len(@))],
                              classifications, key_prefixes)
                          = relationships

(* a fact with a bare-prefix column whose stripped name would match the    *)
(* dimension its other column is related to                                *)
C5_Witness ==
    /\ Inferred
    /\ \E t \in DOMAIN tables : \E c \in DOMAIN tables[t].columns :
          /\ IsFact(tables[t])
          /\ IsBarePrefix(tables[t].columns[c].name)
          /\ \E i \in DOMAIN relationships :
                /\ relationships[i].from_table = Qualified(tables[t])
                /\ NameMatch(Base(tables[t].columns[c].name),
                             Base(relationships[i].to_column))

(* C6: every relationship goes from a table the map marks Fact to a table  *)
(* the map marks Dimension; a table marked Unclassified or without entry   *)
(* is on neither side; without facts or without dimensions the result is   *)
(* empty.                                                                  *)
C6_OnlyFactToDimension ==
    Inferred =>
        /\ \A i \in DOMAIN relationships :
              /\ \E t \in DOMAIN tables :
                    IsFact(tables[t]) /\ Qualified(tables[t]) = relationships[i].from_table
              /\ \E t \in DOMAIN tables :
                    IsDimension(tables[t]) /\ Qualified(tables[t]) = relationships[i].to_table
              /\ \A t \in DOMAIN tables :
                    (~IsFact(tables[t]) /\ ~IsDimension(tables[t])) =>
                        /\ Qualified(tables[t]) # relationships[i].from_table
                        /\ Qualified(tables[t]) # relationships[i].to_table
        /\ ((\A t \in DOMAIN tables : ~IsFact(tables[t]))
               \/ (\A t \in DOMAIN tables : ~IsDimension(tables[t])))
              => relationships = <<>>

(* a table that is neither Fact nor Dimension and has a key column that is *)
(* an endpoint of a returned relationship of other tables                  *)
C6_Witness ==
    /\ Inferred
    /\ \E t \in DOMAIN tables : \E i \in DOMAIN relationships :
          /\ ~IsFact(tables[t])
          /\ ~IsDimension(tables[t])
          /\ \/ relationships[i].from_column \in KeyNames(tables[t])
             \/ relationships[i].to_column \in KeyNames(tables[t])

(* (from_table, from_column, to_table, to_column) of a <= that of b        *)
EndpointsLeq(a, b) ==
    IF a.from_table # b.from_table THEN StrLeq(a.from_table, b.from_table)
    ELSE IF a.from_column # b.from_column THEN StrLeq(a.from_column, b.from_column)
    ELSE IF a.to_table # b.to_table THEN StrLeq(a.to_table, b.to_table)
    ELSE StrLeq(a.to_column, b.to_column)

(* C7: the result is sorted ascending by (from_table, from_column,         *)
(* to_table, to_column).                                                   *)
C7_ResultSorted ==
    Inferred =>
        \A i, j \in DOMAIN relationships :
            i < j => EndpointsLeq(relationships[i], relationships[j])

(* relationships of two facts, returned in the opposite order of the       *)
(* facts in the input                                                      *)
C7_Witness ==
    /\ Inferred
    /\ \E i, j \in DOMAIN relationships : \E a, b \in DOMAIN tables :
          /\ i < j
          /\ a < b
          /\ relationships[i].from_table = Qualified(tables[b])
          /\ relationships[j].from_table = Qualified(tables[a])
          /\ Qualified(tables[a]) # Qualified(tables[b])

(* the key columns of a table that are not a bare prefix                   *)
QualifyingKeys(t) == {k \in KeyNames(t) : ~IsBarePrefix(k)}

(* C9: a Dimension takes part in matching if and only if it has exactly    *)
(* one key column that is not a bare prefix: with none or several it is    *)
(* the to_table of no relationship, and with exactly one every fact key    *)
(* column with the same stripped name gets a relationship.                 *)
C9_DimensionWithOneQualifyingKeyTakesPart ==
    Inferred =>
        \A d \in DOMAIN tables :
            IsDimension(tables[d]) =>
                /\ Cardinality(QualifyingKeys(tables[d])) # 1 =>
                      \A i \in DOMAIN relationships :
                          relationships[i].to_table # Qualified(tables[d])
                /\ Cardinality(QualifyingKeys(tables[d])) = 1 =>
                      \A f \in DOMAIN tables :
                          IsFact(tables[f]) =>
                              \A c \in QualifyingKeys(tables[f]),
                                 k \in QualifyingKeys(tables[d]) :
                                  Base(c) = Base(k) =>
                                      \E i \in DOMAIN relationships :
                                          /\ relationships[i].from_table
                                                = Qualified(tables[f])
                                          /\ relationships[i].from_column = c

(* C10: a key column of a fact table is the from_column of at most one     *)
(* relationship.                                                           *)
C10_OneRelationshipPerFactColumn ==
    Inferred =>
        \A i, j \in DOMAIN relationships :
            (/\ relationships[i].from_table = relationships[j].from_table
             /\ relationships[i].from_column = relationships[j].from_column)
                => i = j

(* a related fact column whose stripped name starts with the stripped key  *)
(* names, each followed by an underscore, of two single-key dimensions     *)
C10_Witness ==
    /\ Inferred
    /\ \E i \in DOMAIN relationships : \E d, e \in DOMAIN tables :
          /\ d # e
          /\ SingleKeyDimension(tables[d])
          /\ SingleKeyDimension(tables[e])
          /\ \E k \in KeyNames(tables[d]), m \in KeyNames(tables[e]) :
                /\ Base(k) # Base(m)
                /\ StartsWith(Base(relationships[i].from_column), Base(k) \o <<Ch.us>>)
                /\ StartsWith(Base(relationships[i].from_column), Base(m) \o <<Ch.us>>)

(* C12: infer_relationships never raises and returns relationships, also  *)
(* for empty prefixes, fact key columns that match no dimension,           *)
(* dimensions with several key columns and maps with changed, missing or   *)
(* stale entries; classify_tables returns a classification for every       *)
(* table of the same inputs.                                               *)
C12_CoreNeverRaises ==
    /\ pc # "raised"
    /\ Inferred => \A i \in DOMAIN relationships :
                      /\ ~IsException(relationships[i].id)
                      /\ relationships[i].id.namespace = SEMANTIC_MODEL_NAMESPACE
    /\ Inferred =>
          LET m == classify_tables(tables, key_prefixes)
          IN  \A t \in DOMAIN tables :
                 /\ <<tables[t].schema_name, tables[t].table_name>> \in DOMAIN m
                 /\ m[<<tables[t].schema_name, tables[t].table_name>>] \in ClassValues

(* a table marked Fact against its columns, with a key column that matches *)
(* no dimension, next to a table marked Dimension that has two key         *)
(* columns: the call returns, with no relationship                         *)
C12_Witness ==
    /\ Inferred
    /\ relationships = <<>>
    /\ \E f, d \in DOMAIN tables :
          /\ IsFact(tables[f])
          /\ classify_table(tables[f].columns, key_prefixes) # TableClassification.FACT
          /\ \E k \in KeyNames(tables[f]) : ~IsBarePrefix(k)
          /\ IsDimension(tables[d])
          /\ Cardinality(KeyNames(tables[d])) = 2

(* the assignments of schemas S and T to the tables that keep their        *)
(* (schema, table) pairwise distinct                                       *)
SchemaPlacements ==
    {f \in [DOMAIN tables -> {<<Ch.S>>, <<Ch.T>>}] :
        \A i, j \in DOMAIN tables :
            (f[i] = f[j] /\ tables[i].table_name = tables[j].table_name) => i = j}

(* the tables placed in the schemas f, and the map with their entries      *)
(* moved along                                                             *)
Placed(f) == [i \in DOMAIN tables |-> [tables[i] EXCEPT !.schema_name = f[i]]]

PlacedMap(f) ==
    LET with == {i \in DOMAIN tables :
                    <<tables[i].schema_name, tables[i].table_name>> \in DOMAIN classifications}
        At(k) == CHOOSE i \in with : <<f[i], tables[i].table_name>> = k
    IN  [k \in {<<f[i], tables[i].table_name>> : i \in with} |->
            classifications[<<tables[At(k)].schema_name, tables[At(k)].table_name>>]]

(* relationships with each table named by its position among the tables    *)
PositionOf(tbls, qualified) == CHOOSE i \in DOMAIN tbls : Qualified(tbls[i]) = qualified

Unqualified(rels, tbls) ==
    {[from |-> PositionOf(tbls, rels[i].from_table),
      from_column |-> rels[i].from_column,
      to |-> PositionOf(tbls, rels[i].to_table),
      to_column |-> rels[i].to_column,
      is_active |-> rels[i].is_active] : i \in DOMAIN rels}

(* C14: matching looks at column names only: with the tables placed in any *)
(* other schemas (all in one, or spread over two) the call returns as many *)
(* relationships, between the same tables and columns with the same        *)
(* active flags; only the qualified names differ.                          *)
C14_SchemasDoNotMatter ==
    Inferred =>
        \A f \in SchemaPlacements :
            LET moved == infer_relationships(Placed(f), PlacedMap(f), key_prefixes)
            IN  /\ ~Raised(moved)
                /\ Len(moved) = Len(relationships)
                /\ Unqualified(moved, Placed(f)) = Unqualified(relationships, tables)

(* a relationship from a fact in one schema to a dimension in the other,   *)
(* and a second one that is inactive                                       *)
C14_Witness ==
    /\ Inferred
    /\ \E i, j \in DOMAIN relationships :
          /\ SchemaPart(relationships[i].from_table) # SchemaPart(relationships[i].to_table)
          /\ ~relationships[j].is_active
          /\ \E f \in SchemaPlacements : \A t \in DOMAIN tables : f[t] = <<Ch.S>>

(* C13: with an empty tables sequence infer_relationships returns the      *)
(* empty result, whatever the classification map and the key prefixes      *)
(* contain.                                                                *)
C13_EmptyTablesGiveEmptyResult ==
    (pc # "start" /\ tables = <<>>) => (Inferred /\ relationships = <<>>)

(* no tables, a map with an entry and two key prefixes                     *)
C13_Witness ==
    /\ Inferred
    /\ tables = <<>>
    /\ DOMAIN classifications # {}
    /\ Len(key_prefixes) = 2
    /\ relationships = <<>>

----------------------------------------------------------------------------
(* Properties of classify_table                                            *)

Classified == pc = "classified"

(* p is a prefix of name, code point by code point                         *)
HasPrefix(name, p) ==
    /\ Len(p) <= Len(name)
    /\ \A n \in 1..Len(p) : name[n] = p[n]

(* the positions of the columns that start with at least one prefix        *)
KeyPositions(t) ==
    {c \in DOMAIN t.columns :
        \E j \in DOMAIN key_prefixes : HasPrefix(t.columns[c].name, key_prefixes[j])}

(* C4: the classification is Unclassified, Dimension or Fact as the number *)
(* of columns that start with at least one prefix is 0, 1, or 2 and more;  *)
(* no columns or no prefixes give Unclassified.                            *)
C4_ClassifiedByKeyCount ==
    Classified =>
        \A t \in DOMAIN tables :
            LET k == Cardinality(KeyPositions(tables[t]))
                c == classifications[<<tables[t].schema_name, tables[t].table_name>>]
            IN  /\ k = 0 => c = TableClassification.UNCLASSIFIED
                /\ k = 1 => c = TableClassification.DIMENSION
                /\ k >= 2 => c = TableClassification.FACT
                /\ (tables[t].columns = <<>> \/ key_prefixes = <<>>)
                      => c = TableClassification.UNCLASSIFIED

(* a Dimension whose one key column starts with two of the prefixes, next  *)
(* to a column that differs from a key only in case                        *)
C4_Witness ==
    /\ Classified
    /\ \E t \in DOMAIN tables :
          /\ classifications[<<tables[t].schema_name, tables[t].table_name>>]
                = TableClassification.DIMENSION
          /\ \E c \in DOMAIN tables[t].columns :
                Cardinality({j \in DOMAIN key_prefixes :
                               HasPrefix(tables[t].columns[c].name, key_prefixes[j])}) >= 2
          /\ \E c \in DOMAIN tables[t].columns :
                tables[t].columns[c].name = <<Ch.k, Ch.us, Ch.A>>
          /\ Len(tables[t].columns) >= 2

----------------------------------------------------------------------------
(* Properties of classify_tables                                           *)

TableKey(t) == <<t.schema_name, t.table_name>>

(* C11: the map classify_tables returns has exactly one entry per input    *)
(* table, keyed by (schema_name, table_name); the value of a table's entry *)
(* is classify_table of that table's own columns, and is the value the    *)
(* table gets when it is classified alone.                                 *)
C11_OneEntryPerTable ==
    Classified =>
        /\ DOMAIN classifications = {TableKey(tables[i]) : i \in DOMAIN tables}
        /\ Cardinality(DOMAIN classifications) = Len(tables)
        /\ \A i \in DOMAIN tables :
              /\ classifications[TableKey(tables[i])]
                    = classify_table(tables[i].columns, key_prefixes)
              /\ classifications[TableKey(tables[i])]
                    = classify_tables(<<tables[i]>>, key_prefixes)[TableKey(tables[i])]

(* two tables with the same name in different schemas, classified          *)
(* differently, each under its own key                                     *)
C11_Witness ==
    /\ Classified
    /\ \E i, j \in DOMAIN tables :
          /\ tables[i].table_name = tables[j].table_name
          /\ tables[i].schema_name # tables[j].schema_name
          /\ classifications[TableKey(tables[i])] = TableClassification.DIMENSION
          /\ classifications[TableKey(tables[j])] = TableClassification.FACT

----------------------------------------------------------------------------
(* Properties of concurrent invocations                                    *)

(* what one invocation alone returns                                       *)
Sequential(fn) ==
    IF fn = "classify_tables" THEN classify_tables(tables, key_prefixes)
    ELSE infer_relationships(tables, classifications, key_prefixes)

(* C15: in every interleaving of the steps of concurrent invocations on    *)
(* the same tables, map and prefixes, the arguments stay as they were      *)
(* passed, no invocation raises, and an invocation that has returned has   *)
(* returned what a sequential invocation returns.                          *)
C15_ConcurrentCallsAgree ==
    \A p \in DOMAIN calls :
        /\ calls[p].args = [tables |-> tables, classifications |-> classifications,
                            key_prefixes |-> key_prefixes]
        /\ calls[p].pc # "raised"
        /\ calls[p].pc = "done" => calls[p].result = Sequential(calls[p].fn)

(* one invocation of infer_relationships has returned two relationships,   *)
(* one of them inactive, while another holds its candidates and has not    *)
(* yet resolved them                                                       *)
C15_Witness ==
    /\ calls # NotInUse
    /\ \E p, q \in DOMAIN calls :
          /\ calls[p].fn = "infer_relationships"
          /\ calls[p].pc = "matched"
          /\ Len(calls[p].relationships) = 2
          /\ calls[q].fn = "infer_relationships"
          /\ calls[q].pc = "done"
          /\ Len(calls[q].result) = 2
          /\ \E i \in DOMAIN calls[q].result : ~calls[q].result[i].is_active

----------------------------------------------------------------------------
(* Properties of ColumnMetadata                                            *)

(* C16: a construction with an empty name or an ordinal position below 1   *)
(* ends in ValueError, and a construction with neither returns the column; *)
(* every column of a table that has reached the classifier or the          *)
(* inferrer has a non-empty name and an ordinal position of at least 1.    *)
C16_InvalidColumnFailsAtConstruction ==
    (column # NotInUse /\ pc # "start") =>
        LET invalid == column.args.name = <<>> \/ column.args.ordinal_position < 1
        IN  /\ invalid => /\ IsException(column.value)
                          /\ column.value.exception = "ValueError"
                          /\ tables = <<>>
                          /\ classifications = <<>>
            /\ ~invalid => /\ ~IsException(column.value)
                           /\ column.value.name = column.args.name
                           /\ column.value.ordinal_position = column.args.ordinal_position
            /\ \A t \in DOMAIN tables : \A c \in DOMAIN tables[t].columns :
                  /\ tables[t].columns[c].name # <<>>
                  /\ tables[t].columns[c].ordinal_position >= 1

(* a construction with a name and ordinal position 0 has ended in          *)
(* ValueError                                                              *)
C16_Witness ==
    /\ column # NotInUse
    /\ pc = "raised"
    /\ column.args.name # <<>>
    /\ column.args.ordinal_position = 0
    /\ column.value.message = "Ordinal position must be >= 1"

----------------------------------------------------------------------------
(* Properties of filter_tables                                             *)

(* the positions of the tables that include and exclude let through        *)
KeptPositions ==
    {i \in DOMAIN tables :
        /\ filtering.include # NoNames =>
              \E j \in DOMAIN filtering.include :
                  filtering.include[j] = tables[i].table_name
        /\ filtering.exclude # NoNames =>
              \A j \in DOMAIN filtering.exclude :
                  filtering.exclude[j] # tables[i].table_name}

(* C20: filter_tables returns exactly the tables whose table_name is in    *)
(* include (when include is not None) and not in exclude (when exclude is  *)
(* not None), in their original relative order; a name in both lists is    *)
(* dropped, an empty include list yields no table, and with both None the  *)
(* result is the input.                                                    *)
C20_FilterKeepsIncludedNotExcluded ==
    (filtering # NotInUse /\ pc = "filtered") =>
        /\ Len(filtering.result) = Cardinality(KeptPositions)
        /\ \A n \in DOMAIN filtering.result :
              \E i \in KeptPositions :
                  /\ Cardinality({j \in KeptPositions : j < i}) = n - 1
                  /\ filtering.result[n] = tables[i]
        /\ filtering.include = <<>> => filtering.result = <<>>
        /\ (filtering.include = NoNames /\ filtering.exclude = NoNames)
              => filtering.result = tables

(* three tables, include [A, B] and exclude [B]: the two tables named A    *)
(* are returned, S.B is not                                                *)
C20_Witness ==
    /\ filtering # NotInUse
    /\ pc = "filtered"
    /\ Len(tables) = 3
    /\ Len(filtering.result) = 2
    /\ filtering.include # NoNames
    /\ filtering.exclude # NoNames
    /\ \E j \in DOMAIN filtering.include, k \in DOMAIN filtering.exclude :
          filtering.include[j] = filtering.exclude[k]
    /\ filtering.result[1].table_name = filtering.result[2].table_name

----------------------------------------------------------------------------
(* Properties of generate_semantic_model                                   *)

(* the stage a collaborator belongs to                                     *)
StageOfCallee(callee) ==
    CASE callee = "create_fabric_connection" -> "connection"
      [] callee = "discover_tables" -> "discovery"
      [] callee = "filter_tables" -> "filtering"
      [] callee = "classify_tables" -> "classification"
      [] callee = "infer_relationships" -> "relationships"
      [] callee \in {"get_fabric_token", "resolve_direct_lake_url"} -> "resolution"
      [] callee = "generate_all_tmdl" -> "tmdl_generation"
      [] callee = "write_tmdl_folder" -> "output"
      [] callee \in {"deploy_semantic_model_dev", "deploy_semantic_model_prod"}
            -> "deployment"

(* C17: when the collaborator of a stage has raised, the call has ended    *)
(* with a PipelineError whose stage is the stage of that collaborator and  *)
(* whose cause is the exception it raised, and no collaborator has been    *)
(* called after it; a call in which none has raised has not ended raised.  *)
C17_StageFailureEndsInPipelineError ==
    pipeline # NotInUse =>
        /\ pipeline.raised # <<>> =>
              /\ pc = "raised"
              /\ Len(pipeline.outcome) = 1
              /\ pipeline.outcome[1].exception = "PipelineError"
              /\ pipeline.outcome[1].stage = StageOfCallee(pipeline.raised[1].callee)
              /\ pipeline.outcome[1].cause = pipeline.raised[1]
              /\ pipeline.called[Len(pipeline.called)] = pipeline.raised[1].callee
        /\ pipeline.raised = <<>> => pc # "raised"

(* the call has ended with the PipelineError of stage resolution, after    *)
(* the five stages before it, with resolve_direct_lake_url called last     *)
C17_Witness ==
    /\ pipeline # NotInUse
    /\ pc = "raised"
    /\ pipeline.outcome[1].stage = "resolution"
    /\ pipeline.outcome[1].cause.exception = "RuntimeError"
    /\ Len(pipeline.called) = 7
    /\ pipeline.called[7] = "resolve_direct_lake_url"

----------------------------------------------------------------------------
(* Properties of deploy_semantic_model_prod                                *)

(* the requests of one kind the call has sent                              *)
Sent(kind) == SelectSeq(deployment.requests, LAMBDA r : r.kind = kind)

(* the listed models with the deployed name, in the order of the listing   *)
Existing ==
    SelectSeq(deployment.workspace_models,
              LAMBDA m : m.displayName = deployment.model_name)

(* C18: if a model with the name exists and confirm_overwrite is false the *)
(* call sends no create and no update request and, once the lookup has     *)
(* answered, ends in ValueError; if one exists and confirm_overwrite is    *)
(* true it sends no create request and at most one update request, for the *)
(* first listed model of that name, whose id is all it returns; if none    *)
(* exists it sends no update request and at most one create request, under *)
(* the unmodified model name.                                              *)
C18_NoOverwriteWithoutConsent ==
    (deployment # NotInUse /\ deployment.mode = "prod") =>
        /\ (Existing # <<>> /\ ~deployment.confirm_overwrite) =>
              /\ Sent("create") = <<>> /\ Sent("update") = <<>>
              /\ (pc = "done" /\ Truthy(deployment.existing_id))
                    => deployment.outcome = <<[exception |-> "ValueError"]>>
        /\ (Existing # <<>> /\ deployment.confirm_overwrite) =>
              /\ Sent("create") = <<>>
              /\ Len(Sent("update")) <= 1
              /\ \A i \in DOMAIN Sent("update") : Sent("update")[i].id = Existing[1].id
              /\ (pc = "done" /\ "returned" \in DOMAIN deployment.outcome[1])
                    => /\ deployment.outcome[1].returned = Existing[1].id
                       /\ Len(Sent("update")) = 1
        /\ Existing = <<>> =>
              /\ Sent("update") = <<>>
              /\ Len(Sent("create")) <= 1
              /\ \A i \in DOMAIN Sent("create") :
                    Sent("create")[i].displayName = deployment.model_name
              /\ (pc = "done" /\ "returned" \in DOMAIN deployment.outcome[1])
                    => Len(Sent("create")) = 1

(* two models carry the name, confirm_overwrite is true: the call has      *)
(* updated the first listed one, polled the operation and returned its id  *)
C18_Witness ==
    /\ deployment # NotInUse
    /\ deployment.mode = "prod"
    /\ pc = "done"
    /\ Len(Existing) = 2
    /\ deployment.confirm_overwrite
    /\ Len(Sent("update")) = 1
    /\ Len(Sent("poll")) = 1
    /\ deployment.outcome = <<[returned |-> Existing[1].id]>>

----------------------------------------------------------------------------
(* Properties of write_tmdl_folder                                         *)

(* the paths among the files handed over                                   *)
FilePaths == {folder.files[i].path : i \in DOMAIN folder.files}

(* the path held, when the call began, a file without the watermark        *)
ManuallyMaintained(path) ==
    /\ folder.before[path] # <<>>
    /\ ~is_auto_generated(folder.before[path][1])

(* the members of a list of the summary                                    *)
Reported(list) == {list[i] : i \in DOMAIN list}

(* C19: a file that was on disk without the watermark when the call began  *)
(* holds the same content at every point of the call, and when the call    *)
(* returns its summary every such file among the target paths is in        *)
(* skipped and not in written.                                             *)
C19_ManualFilesAreKept ==
    folder # NotInUse =>
        \A path \in Paths :
            ManuallyMaintained(path) =>
                /\ folder.disk[path] = folder.before[path]
                /\ (/\ pc = "done"
                    /\ "written" \in DOMAIN folder.outcome[1]
                    /\ path \in FilePaths)
                      => /\ path \in Reported(folder.outcome[1].skipped)
                         /\ path \notin Reported(folder.outcome[1].written)

(* the call has returned with a hand-written file skipped and another      *)
(* file, generated earlier, written over                                   *)
C19_Witness ==
    /\ folder # NotInUse
    /\ pc = "done"
    /\ "written" \in DOMAIN folder.outcome[1]
    /\ \E path \in FilePaths :
          /\ ManuallyMaintained(path)
          /\ path \in Reported(folder.outcome[1].skipped)
    /\ \E path \in FilePaths :
          /\ folder.before[path] # folder.disk[path]
          /\ folder.before[path] # <<>>

----------------------------------------------------------------------------
(* Further properties of infer_relationships                               *)

(* a relationship without its is_active flag                               *)
WithoutFlag(r) ==
    <<r.id, r.from_table, r.from_column, r.to_table, r.to_column,
      r.cross_filtering_behavior, r.from_cardinality, r.to_cardinality>>

(* the candidate relationships the matching of the input finds             *)
CandidateRelationships ==
    Candidates(Facts(tables, classifications),
               BuildDimLookup(Dimensions(tables, classifications), key_prefixes),
               key_prefixes)

(* how often a relationship occurs in a sequence, the flag left aside      *)
Occurrences(rels, r) ==
    Cardinality({i \in DOMAIN rels : WithoutFlag(rels[i]) = WithoutFlag(r)})

(* C21: the result holds the candidate relationships, each as often as the *)
(* matching found it, with id, tables, columns, cross filtering and        *)
(* cardinalities as they were: only is_active may differ.                  *)
C21_ResolutionChangesOnlyIsActive ==
    Inferred =>
        LET found == CandidateRelationships
        IN  /\ Len(relationships) = Len(found)
            /\ \A i \in DOMAIN found :
                  Occurrences(relationships, found[i]) = Occurrences(found, found[i])

(* a result in which the resolution has marked a relationship inactive     *)
C21_Witness ==
    /\ Inferred
    /\ \E i \in DOMAIN relationships : ~relationships[i].is_active

----------------------------------------------------------------------------
(* Further properties of generate_semantic_model                           *)

(* the callees that make up the seven stages; get_fabric_token and         *)
(* resolve_direct_lake_url of fabric mode stand between two of them        *)
StageCallees ==
    {"create_fabric_connection", "discover_tables", "filter_tables", "classify_tables",
     "infer_relationships", "generate_all_tmdl", "write_tmdl_folder",
     "deploy_semantic_model_dev", "deploy_semantic_model_prod"}

(* the stages in the order of the calls made                               *)
StagesCalled ==
    LET staged == SelectSeq(pipeline.called, LAMBDA callee : callee \in StageCallees)
    IN  [i \in DOMAIN staged |-> StageOfCallee(staged[i])]

(* the arguments a callee was called with                                  *)
ReceivedBy(callee) == SelectSeq(pipeline.received, LAMBDA r : r.callee = callee)

----------------------------------------------------------------------------
(* Properties of the create paths and of poll_operation                    *)

(* the call has returned a model id                                        *)
DeployReturned ==
    /\ pc = "done"
    /\ "returned" \in DOMAIN deployment.outcome[1]

(* C23: in deploy_semantic_model_dev and on the create path of             *)
(* deploy_semantic_model_prod, if the create request was answered 202 with *)
(* an operation id, a result request is the last request sent, comes right *)
(* after a status request that poll_operation returned from, and the id of *)
(* the result is what the call returns; if it was answered 201, no status  *)
(* and no result request is sent and the id of the answer is returned.     *)
C23_PollThenFetchResult ==
    (deployment # NotInUse /\ Sent("create") # <<>>) =>
        LET reqs == deployment.requests
        IN  IF deployment.op_id # "None"
            THEN /\ \A i \in DOMAIN reqs :
                       reqs[i].kind = "result" =>
                          /\ i = Len(reqs)
                          /\ i > 1 /\ reqs[i - 1].kind = "poll"
                          /\ deployment.status \notin {"Running", "Failed"}
                 /\ DeployReturned =>
                       /\ reqs[Len(reqs)].kind = "result"
                       /\ deployment.outcome[1].returned = OperationResultId
            ELSE /\ Sent("poll") = <<>>
                 /\ Sent("result") = <<>>
                 /\ DeployReturned => deployment.outcome[1].returned = CreatedModelId

(* a dev deployment has polled its create operation three times, fetched   *)
(* the result and returned its id                                          *)
C23_Witness ==
    /\ deployment # NotInUse
    /\ deployment.mode = "dev"
    /\ DeployReturned
    /\ Len(Sent("poll")) = 3
    /\ Len(Sent("result")) = 1
    /\ deployment.outcome[1].returned = OperationResultId

(* what holds at every point of a call of poll_operation: at most          *)
(* MaxPollAttempts status requests are sent; another is due only after a   *)
(* Running status; a Failed status has ended the call with RuntimeError;   *)
(* a Running status at the last attempt has ended it with RetryError       *)
PollingBounded ==
    deployment # NotInUse =>
        /\ Len(Sent("poll")) = deployment.attempts
        /\ deployment.attempts <= MaxPollAttempts
        /\ (pc = "polling" /\ deployment.attempts > 0) => deployment.status = "Running"
        /\ deployment.status = "Failed" =>
              /\ pc = "done"
              /\ deployment.outcome = <<[exception |-> "RuntimeError"]>>
        /\ (deployment.status = "Running" /\ deployment.attempts = MaxPollAttempts) =>
              /\ pc = "done"
              /\ deployment.outcome = <<[exception |-> "RetryError"]>>

(* C24: a call of poll_operation sends at most 60 status requests, polls   *)
(* again only after a Running status, ends with RuntimeError at the first  *)
(* Failed status and with an error at the 60th Running status, and, every  *)
(* request being answered, always comes to an end.                         *)
C24_PollingTerminates ==
    /\ []PollingBounded
    /\ (deployment # NotInUse /\ pc = "polling") ~> (pc # "polling")

(* the operation was reported Running sixty times and the call has ended   *)
(* with RetryError                                                         *)
C24_Witness ==
    /\ deployment # NotInUse
    /\ pc = "done"
    /\ deployment.attempts = MaxPollAttempts
    /\ deployment.status = "Running"
    /\ deployment.outcome = <<[exception |-> "RetryError"]>>

(* poll_operation has returned to its caller: the result is being fetched, *)
(* or the update path has returned the id after polling                    *)
PollReturned ==
    /\ deployment.attempts > 0
    /\ \/ pc = "result"
       \/ Sent("result") # <<>>
       \/ DeployReturned

(* C25: poll_operation returns to its caller only for an operation whose   *)
(* last reported status is Succeeded.                                      *)
C25_ReturnsOnlySucceeded ==
    (deployment # NotInUse /\ PollReturned) => deployment.status = "Succeeded"

(* the call has returned its summary                                       *)
SummaryReturned ==
    /\ pc = "done"
    /\ "written" \in DOMAIN folder.outcome[1]

(* the number of lists of the summary a path is in                         *)
ListsHolding(path) ==
    LET summary == folder.outcome[1]
    IN  Cardinality({l \in {"written", "skipped", "unchanged"} :
                        \E i \in DOMAIN summary[l] : summary[l][i] = path})

(* C26: in dev mode or with overwrite, a second call with the arguments of *)
(* the first writes no file and leaves the content of every file as the    *)
(* first call left it, and its summary has every file the first call wrote *)
(* in unchanged; in the summary of every call each input path is in        *)
(* exactly one of written, skipped and unchanged.                          *)
C26_SecondCallWritesNothing ==
    folder # NotInUse =>
        /\ SummaryReturned => \A path \in FilePaths : ListsHolding(path) = 1
        /\ (folder.call = 2 /\ (folder.dev_mode \/ folder.overwrite)) =>
              /\ folder.written = <<>>
              /\ folder.disk = folder.first[1].disk
              /\ SummaryReturned =>
                    Reported(folder.first[1].summary.written)
                        \subseteq Reported(folder.outcome[1].unchanged)

(* C26 for files without a carriage return                                 *)
IdempotentWithoutCarriageReturns ==
    (/\ folder # NotInUse
     /\ \A i \in DOMAIN folder.files :
           read_text(folder.files[i].content) = folder.files[i].content)
        => C26_SecondCallWritesNothing

(* the endpoints of a relationship                                         *)
Endpoints(r) == <<r.from_table, r.from_column, r.to_table, r.to_column>>

(* C27: two returned relationships that differ in (from_table,             *)
(* from_column, to_table, to_column) have different ids.                   *)
C27_IdsUnique ==
    Inferred =>
        \A i, j \in DOMAIN relationships :
            Endpoints(relationships[i]) # Endpoints(relationships[j])
                => relationships[i].id # relationships[j].id

(* C28: for every order of the same tables, with the same map and          *)
(* prefixes, infer_relationships returns the same relationships.           *)
C28_TableOrderDoesNotMatter ==
    Inferred =>
        \A reordered \in Reorderings(tables) :
            infer_relationships(reordered, classifications, key_prefixes) = relationships

(* the single-key dimensions whose stripped key name is the stripped name  *)
(* of a column                                                             *)
ExactDimensions(c) ==
    {d \in DOMAIN tables :
        /\ SingleKeyDimension(tables[d])
        /\ \E k \in KeyNames(tables[d]) : Base(k) = Base(c)}

(* the single-key dimensions whose stripped key name, followed by an       *)
(* underscore, begins the stripped name of a column                        *)
RoleDimensions(c) ==
    {d \in DOMAIN tables :
        /\ SingleKeyDimension(tables[d])
        /\ \E k \in KeyNames(tables[d]) : StartsWith(Base(c), Base(k) \o <<Ch.us>>)}

(* the returned relationships from a column of a table                     *)
RelationshipsFrom(f, c) ==
    {i \in DOMAIN relationships :
        /\ relationships[i].from_table = Qualified(tables[f])
        /\ relationships[i].from_column = c}

(* C29: a fact key column, not a bare prefix, whose stripped name is the   *)
(* stripped key name of a single-key dimension is related to a dimension   *)
(* with that stripped key name, by its key column, and to no other table,  *)
(* wherever in the input the dimensions stand whose stripped key name      *)
(* followed by an underscore begins it.                                    *)
C29_ExactMatchPrecedesRolePlaying ==
    Inferred =>
        \A f \in DOMAIN tables :
            IsFact(tables[f]) =>
                \A c \in KeyNames(tables[f]) :
                    (~IsBarePrefix(c) /\ ExactDimensions(c) # {}) =>
                        /\ RelationshipsFrom(f, c) # {}
                        /\ \A i \in RelationshipsFrom(f, c) :
                              \E d \in ExactDimensions(c) :
                                 /\ relationships[i].to_table = Qualified(tables[d])
                                 /\ relationships[i].to_column \in KeyNames(tables[d])

(* a fact column related to the dimension of its stripped name, a          *)
(* dimension that matches by the underscore rule standing earlier in the   *)
(* input                                                                   *)
C29_Witness ==
    /\ Inferred
    /\ \E f \in DOMAIN tables :
          /\ IsFact(tables[f])
          /\ \E c \in KeyNames(tables[f]) :
                /\ ~IsBarePrefix(c)
                /\ \E d \in ExactDimensions(c), e \in RoleDimensions(c) :
                      /\ e < d
                      /\ \E i \in RelationshipsFrom(f, c) :
                            relationships[i].to_table = Qualified(tables[d])

----------------------------------------------------------------------------
(* Properties of generate_all_tmdl                                         *)

(* the entries of the returned dict under definition/tables/               *)
TableEntries(files) ==
    SelectSeq(files, LAMBDA e : "folder" \in DOMAIN e.key)

(* the content under a path                                                *)
ContentAt(files, path) ==
    LET i == CHOOSE i \in DOMAIN files : files[i].key = path IN files[i].val

(* C30: when generate_all_tmdl returns, the dict holds as many files       *)
(* under definition/tables/ as there are input tables, and the content     *)
(* generated for each table stands under that table's path.                *)
C30_OneFilePerTable ==
    (pc = "generated" /\ output # NotInUse) =>
        LET files == output[1]
        IN  /\ Len(TableEntries(files)) = Len(tables)
            /\ \A i \in DOMAIN tables :
                  /\ \E j \in DOMAIN files : files[j].key = table_path(tables[i])
                  /\ ContentAt(files, table_path(tables[i])) =
                        generate_table_tmdl(tables[i],
                            ClassificationOrUnclassified(classifications, tables[i]),
                            key_prefixes, CatalogName)

(* the same for calls whose tables have pairwise distinct table names      *)
OneFilePerTableName ==
    (/\ pc = "generated"
     /\ output # NotInUse
     /\ \A i, j \in DOMAIN tables :
           tables[i].table_name = tables[j].table_name => i = j) =>
        LET files == output[1]
        IN  /\ Len(TableEntries(files)) = Len(tables)
            /\ \A i \in DOMAIN tables :
                  ContentAt(files, table_path(tables[i])) =
                      generate_table_tmdl(tables[i],
                          ClassificationOrUnclassified(classifications, tables[i]),
                          key_prefixes, CatalogName)

====
